---- MODULE Spec2Model ----
(***************************************************************************)
(* A model of the crossword constructor: the grid and its word index       *)
(* (gridUtils.ts, store.ts), the grid editor's key handlers, the autofill  *)
(* search of the fill panel and the .puz codec.                            *)
(*                                                                         *)
(* Conventions.  Rows and columns are numbered from 0 as in the source, so *)
(* a grid is a function [0..rows-1 -> [0..cols-1 -> Cell]].  A character   *)
(* is its char code (65 = 'A'), a string a sequence of char codes.  A cell *)
(* is a record [type, letter]; letter = 0 stands for an absent letter.     *)
(***************************************************************************)
EXTENDS Integers, Sequences, FiniteSets, TLC

VARIABLES
    phase,              \* position of the operation under study
    grid,               \* store.ts `grid`
    rows,               \* store.ts `rows`
    cols,               \* store.ts `cols`
    detected,           \* result of detectWords(grid)
    words,              \* store.ts `words` = numberWords(detectWords(grid))
    symmetry,           \* store.ts `symmetry`
    selectedRow,        \* store.ts `selectedRow`
    selectedCol,        \* store.ts `selectedCol`
    selectedDirection,  \* store.ts `selectedDirection`
    clues,              \* store.ts `clues`: word id -> clue text
    puzzleTitle,        \* store.ts `puzzleTitle`
    author,             \* name of the collaborator with role Constructor
    copyright,          \* PuzExportData.copyright
    notes,              \* store.ts `notes`
    file,               \* the bytes of a .puz file
    imported,           \* the value importFromPuz returned
    cksum,              \* the running state of cksum_region
    combinedWordList,   \* the words of the enabled word lists
    uniqueWordsCache,   \* fill panel: the words with their highest rating
    isAutofilling,      \* fill panel: busy flag of generateAutofill
    currentGrid,        \* generateAutofill: the grid it read
    wordsToFill,        \* generateAutofill: the entries it fills
    wordOptions,        \* generateAutofill: the candidates of every entry
    autofillVariations, \* fill panel: the variations of the last search
    currentVariationIndex,  \* fill panel: the variation shown, -1 for none
    previewGrid,        \* store.ts `previewGrid`: <<>> for null, else <<grid>>
    isApplyingAutofill,     \* fill panel: set for 100 ms by applyAutofill
    autofillJustCompleted,  \* fill panel: set by a search that found a fill
    sortBy,                 \* fill panel: "rating" or "alphabetical"
    minRating,              \* fill panel: lower rating bound, NullRating for none
    maxRating,              \* fill panel: upper rating bound, NullRating for none
    allFilteredSuggestions, \* fill panel: the suggestions for the selected entry
    currentPage,            \* fill panel: the page of suggestions shown
    suggestions             \* fill panel: the suggestions of that page

wordVars == <<detected, words>>
editVars == <<symmetry, selectedRow, selectedCol, selectedDirection>>
puzVars == <<clues, puzzleTitle, author, copyright, notes>>
codecVars == <<puzVars, file, imported, cksum>>
runVars == <<currentGrid, wordsToFill, wordOptions>>
flagVars == <<isApplyingAutofill, autofillJustCompleted>>
filterVars == <<sortBy, minRating, maxRating>>
suggestVars == <<filterVars, allFilteredSuggestions, currentPage, suggestions>>
fillVars == <<combinedWordList, uniqueWordsCache, isAutofilling, runVars,
              autofillVariations, currentVariationIndex, previewGrid, flagVars,
              suggestVars>>
vars == <<phase, grid, rows, cols, wordVars, editVars, codecVars, fillVars>>

-----------------------------------------------------------------------------
(* Cells and grids                                                         *)

BlackCell == [type |-> "black", letter |-> 0]
EmptyCell == [type |-> "empty", letter |-> 0]
LetterCell(ch) == [type |-> "letter", letter |-> ch]

\* what `grid[row]?.[col]` yields outside the grid
NoCell == [type |-> "none", letter |-> 0]

GridRows(g) == Cardinality(DOMAIN g)
GridCols(g) == IF GridRows(g) = 0 THEN 0 ELSE Cardinality(DOMAIN g[0])

createEmptyGrid(r, c) == [i \in 0..(r - 1) |-> [j \in 0..(c - 1) |-> EmptyCell]]

Min(a, b) == IF a < b THEN a ELSE b

\* the positions of an r x c grid
Cells(r, c) == (0..(r - 1)) \X (0..(c - 1))

-----------------------------------------------------------------------------
(* gridUtils.ts: detectWords                                               *)
(* The accumulator acc of a loop is never shorter than 0: the test         *)
(* Len(acc) < 0 only makes the accumulator be evaluated at every step.     *)

MakeWord(dir, r, c, len) ==
    [id |-> <<dir, r, c>>, number |-> 0, direction |-> dir,
     startRow |-> r, startCol |-> c, length |-> len]

\* mutant of WordEnds: entries of length 1 are dropped
WordEnds_min2(wordLength, wordStart) == wordLength >= 2 /\ wordStart # -1

\* the test that closes a run: `wordLength >= 1 && wordStart !== -1`
WordEnds(wordLength, wordStart) == wordLength >= 1 /\ wordStart # -1

RECURSIVE ScanAcross(_, _, _, _, _, _)
ScanAcross(g, row, col, wordStart, wordLength, acc) ==
    LET nc == GridCols(g) IN
    IF col > nc \/ Len(acc) < 0 THEN acc
    ELSE
      LET cell == IF col < nc THEN g[row][col] ELSE NoCell
          isBlack == cell.type = "black"
          isEmptyOrLetter == cell.type = "empty" \/ cell.type = "letter"
      IN IF isEmptyOrLetter
         THEN ScanAcross(g, row, col + 1,
                         IF wordStart = -1 THEN col ELSE wordStart,
                         wordLength + 1, acc)
         ELSE IF isBlack \/ col = nc
         THEN ScanAcross(g, row, col + 1, -1, 0,
                         IF WordEnds(wordLength, wordStart)
                         THEN Append(acc, MakeWord("across", row, wordStart, wordLength))
                         ELSE acc)
         ELSE ScanAcross(g, row, col + 1, wordStart, wordLength, acc)

RECURSIVE ScanDown(_, _, _, _, _, _)
ScanDown(g, col, row, wordStart, wordLength, acc) ==
    LET nr == GridRows(g) IN
    IF row > nr \/ Len(acc) < 0 THEN acc
    ELSE
      LET cell == IF row < nr THEN g[row][col] ELSE NoCell
          isBlack == cell.type = "black"
          isEmptyOrLetter == cell.type = "empty" \/ cell.type = "letter"
      IN IF isEmptyOrLetter
         THEN ScanDown(g, col, row + 1,
                       IF wordStart = -1 THEN row ELSE wordStart,
                       wordLength + 1, acc)
         ELSE IF isBlack \/ row = nr
         THEN ScanDown(g, col, row + 1, -1, 0,
                       IF WordEnds(wordLength, wordStart)
                       THEN Append(acc, MakeWord("down", wordStart, col, wordLength))
                       ELSE acc)
         ELSE ScanDown(g, col, row + 1, wordStart, wordLength, acc)

RECURSIVE AcrossRows(_, _, _)
AcrossRows(g, row, acc) ==
    IF row >= GridRows(g) \/ Len(acc) < 0 THEN acc
    ELSE AcrossRows(g, row + 1, ScanAcross(g, row, 0, -1, 0, acc))

RECURSIVE DownCols(_, _, _)
DownCols(g, col, acc) ==
    IF col >= GridCols(g) \/ Len(acc) < 0 THEN acc
    ELSE DownCols(g, col + 1, ScanDown(g, col, 0, -1, 0, acc))

\* mutant of detectWords: the columns are not scanned
detectWords_acrossOnly(g) == AcrossRows(g, 0, <<>>)

detectWords(g) == DownCols(g, 0, AcrossRows(g, 0, <<>>))

-----------------------------------------------------------------------------
(* gridUtils.ts: numberWords                                               *)

\* the comparator of the two position sorts: row first, then column
PosLess(r1, c1, r2, c2) == r1 < r2 \/ (r1 = r2 /\ c1 < c2)

\* Array.prototype.sort is stable: an element goes after its equals
RECURSIVE InsertByPos(_, _)
InsertByPos(sorted, w) ==
    IF sorted = <<>> THEN <<w>>
    ELSE IF PosLess(w.startRow, w.startCol, Head(sorted).startRow, Head(sorted).startCol)
         THEN <<w>> \o sorted
         ELSE <<Head(sorted)>> \o InsertByPos(Tail(sorted), w)

RECURSIVE SortByPos(_, _)
SortByPos(ws, acc) ==
    IF ws = <<>> \/ Len(acc) < 0 THEN acc ELSE SortByPos(Tail(ws), InsertByPos(acc, Head(ws)))

\* keys of the startPositions map, in insertion order
RECURSIVE StartKeys(_, _)
StartKeys(ws, acc) ==
    IF ws = <<>> THEN acc
    ELSE LET key == <<Head(ws).startRow, Head(ws).startCol>>
         IN StartKeys(Tail(ws),
                      IF \E i \in 1..Len(acc) : acc[i] = key THEN acc ELSE Append(acc, key))

RECURSIVE InsertKey(_, _)
InsertKey(sorted, k) ==
    IF sorted = <<>> THEN <<k>>
    ELSE IF PosLess(k[1], k[2], Head(sorted)[1], Head(sorted)[2])
         THEN <<k>> \o sorted
         ELSE <<Head(sorted)>> \o InsertKey(Tail(sorted), k)

RECURSIVE SortKeys(_, _)
SortKeys(ks, acc) ==
    IF ks = <<>> \/ Len(acc) < 0 THEN acc ELSE SortKeys(Tail(ks), InsertKey(acc, Head(ks)))

\* startPositions.get(pos): the words of that start, in sortedWords order
RECURSIVE WordsAtPos(_, _)
WordsAtPos(ws, key) ==
    IF ws = <<>> THEN <<>>
    ELSE IF <<Head(ws).startRow, Head(ws).startCol>> = key
         THEN <<Head(ws)>> \o WordsAtPos(Tail(ws), key)
         ELSE WordsAtPos(Tail(ws), key)

\* mutant of NextNumber: one number per word instead of one per position
NextNumber_perWord(number, wordsAtPos) == number + Len(wordsAtPos)

\* `number++` after the words of one position
NextNumber(number, wordsAtPos) == number + 1

RECURSIVE AssignNumbers(_, _, _, _)
AssignNumbers(positions, sortedWords, number, acc) ==
    IF positions = <<>> \/ Len(acc) < 0 \/ number < 0 THEN acc
    ELSE LET wordsAtPos == WordsAtPos(sortedWords, Head(positions))
             numbered == [i \in 1..Len(wordsAtPos) |->
                             [wordsAtPos[i] EXCEPT !.number = number]]
         IN AssignNumbers(Tail(positions), sortedWords,
                          NextNumber(number, wordsAtPos), acc \o numbered)

\* the comparator of the final sort: number, then across before down
NumLess(a, b) ==
    \/ a.number < b.number
    \/ a.number = b.number /\ a.direction # b.direction /\ a.direction = "across"

RECURSIVE InsertByNumber(_, _)
InsertByNumber(sorted, w) ==
    IF sorted = <<>> THEN <<w>>
    ELSE IF NumLess(w, Head(sorted))
         THEN <<w>> \o sorted
         ELSE <<Head(sorted)>> \o InsertByNumber(Tail(sorted), w)

RECURSIVE SortByNumber(_, _)
SortByNumber(ws, acc) ==
    IF ws = <<>> \/ Len(acc) < 0 THEN acc ELSE SortByNumber(Tail(ws), InsertByNumber(acc, Head(ws)))

numberWords(ws) ==
    LET sortedWords == SortByPos(ws, <<>>)
        sortedPositions == SortKeys(StartKeys(sortedWords, <<>>), <<>>)
        numberedWords == AssignNumbers(sortedPositions, sortedWords, 1, <<>>)
    IN SortByNumber(numberedWords, <<>>)

-----------------------------------------------------------------------------
(* The grid editor in edit mode: the click and key handlers of the grid    *)
(* component and the grid buttons of the settings panel                    *)

SymmetryTypes == {"none", "rotational", "vertical", "horizontal"}

\* the initial values of the selection and symmetry stores
EditorAtRest ==
    /\ symmetry = "none"
    /\ selectedRow = 0
    /\ selectedCol = 0
    /\ selectedDirection = "across"

\* the map type of the stores and of the codec: a function on its keys
EmptyMap == [k \in {} |-> <<>>]

\* the initial values of the metadata stores
PuzzleAtRest ==
    /\ clues = EmptyMap
    /\ puzzleTitle = <<>>
    /\ author = <<>>
    /\ copyright = <<>>
    /\ notes = <<>>

\* before importFromPuz has been called
NotImported == [error |-> "not called"]

\* no file written or read
CodecAtRest ==
    /\ PuzzleAtRest
    /\ file = <<>>
    /\ imported = NotImported
    /\ cksum = 0

\* the rating null of a word without rating, and of a rating bound not set
NullRating == -1

\* the fill panel before any word list is loaded and any search is run
FillAtRest ==
    /\ combinedWordList = <<>>
    /\ uniqueWordsCache = <<>>
    /\ isAutofilling = FALSE
    /\ currentGrid = createEmptyGrid(0, 0)
    /\ wordsToFill = <<>>
    /\ wordOptions = EmptyMap
    /\ autofillVariations = <<>>
    /\ currentVariationIndex = -1
    /\ previewGrid = <<>>
    /\ isApplyingAutofill = FALSE
    /\ autofillJustCompleted = FALSE
    /\ sortBy = "rating"
    /\ minRating = NullRating
    /\ maxRating = NullRating
    /\ allFilteredSuggestions = <<>>
    /\ currentPage = 1
    /\ suggestions = <<>>

\* g with the cell at (r, c) replaced
SetCell(g, r, c, cell) == [g EXCEPT ![r] = [g[r] EXCEPT ![c] = cell]]

\* mutant of applySymmetry: the vertical and horizontal mirrors are swapped
applySymmetry_swapped(g, row, col, symType, totalRows, totalCols) ==
    IF symType = "none" THEN g
    ELSE IF symType = "rotational"
    THEN LET symRow == totalRows - 1 - row
             symCol == totalCols - 1 - col
         IN IF symRow # row \/ symCol # col
            THEN SetCell(g, symRow, symCol, g[row][col]) ELSE g
    ELSE IF symType = "horizontal"
    THEN LET symCol == totalCols - 1 - col
         IN IF symCol # col THEN SetCell(g, row, symCol, g[row][col]) ELSE g
    ELSE LET symRow == totalRows - 1 - row
         IN IF symRow # row THEN SetCell(g, symRow, col, g[row][col]) ELSE g

\* copies the cell at (row, col) onto its mirror position
applySymmetry(g, row, col, symType, totalRows, totalCols) ==
    IF symType = "none" THEN g
    ELSE IF symType = "rotational"
    THEN LET symRow == totalRows - 1 - row
             symCol == totalCols - 1 - col
         IN IF symRow # row \/ symCol # col
            THEN SetCell(g, symRow, symCol, g[row][col]) ELSE g
    ELSE IF symType = "vertical"
    THEN LET symCol == totalCols - 1 - col
         IN IF symCol # col THEN SetCell(g, row, symCol, g[row][col]) ELSE g
    ELSE LET symRow == totalRows - 1 - row
         IN IF symRow # row THEN SetCell(g, symRow, col, g[row][col]) ELSE g

\* `$words.find(...)`: is there an entry of that direction through (row, col)
HasWordAtCell(ws, row, col, direction) ==
    \E i \in 1..Len(ws) :
       /\ ws[i].direction = direction
       /\ IF direction = "across"
          THEN ws[i].startRow = row /\ col >= ws[i].startCol
               /\ col < ws[i].startCol + ws[i].length
          ELSE ws[i].startCol = col /\ row >= ws[i].startRow
               /\ row < ws[i].startRow + ws[i].length

\* the `while ... type === 'black'` loops that move the cursor
RECURSIVE SkipRight(_, _, _)
SkipRight(g, row, col) ==
    IF col < GridCols(g) /\ g[row][col].type = "black"
    THEN SkipRight(g, row, col + 1) ELSE col

RECURSIVE SkipDown(_, _, _)
SkipDown(g, row, col) ==
    IF row < GridRows(g) /\ g[row][col].type = "black"
    THEN SkipDown(g, row + 1, col) ELSE row

RECURSIVE SkipLeft(_, _, _)
SkipLeft(g, row, col) ==
    IF col >= 0 /\ g[row][col].type = "black"
    THEN SkipLeft(g, row, col - 1) ELSE col

RECURSIVE SkipUp(_, _, _)
SkipUp(g, row, col) ==
    IF row >= 0 /\ g[row][col].type = "black"
    THEN SkipUp(g, row - 1, col) ELSE row

\* cursor after an edit that advances: next non-black cell, if any
MoveForward(g) ==
    IF selectedDirection = "across"
    THEN LET nextCol == SkipRight(g, selectedRow, selectedCol + 1)
         IN /\ selectedCol' = IF nextCol < GridCols(grid) THEN nextCol ELSE selectedCol
            /\ UNCHANGED selectedRow
    ELSE LET nextRow == SkipDown(g, selectedRow + 1, selectedCol)
         IN /\ selectedRow' = IF nextRow < GridRows(grid) THEN nextRow ELSE selectedRow
            /\ UNCHANGED selectedCol

\* cursor after an edit that goes back: previous non-black cell, if any
MoveBack(g) ==
    IF selectedDirection = "across"
    THEN LET prevCol == SkipLeft(g, selectedRow, selectedCol - 1)
         IN /\ selectedCol' = IF prevCol >= 0 THEN prevCol ELSE selectedCol
            /\ UNCHANGED selectedRow
    ELSE LET prevRow == SkipUp(g, selectedRow - 1, selectedCol)
         IN /\ selectedRow' = IF prevRow >= 0 THEN prevRow ELSE selectedRow
            /\ UNCHANGED selectedCol

\* the derived store follows every change of the grid
WordsFollow ==
    /\ detected' = detectWords(grid')
    /\ words' = numberWords(detected')

handleCellClick(row, col) ==
    /\ phase = "edit"
    /\ LET acrossWord == HasWordAtCell(words, row, col, "across")
           downWord == HasWordAtCell(words, row, col, "down")
       IN IF row = selectedRow /\ col = selectedCol
          THEN /\ selectedDirection' =
                    IF acrossWord /\ downWord
                    THEN (IF selectedDirection = "across" THEN "down" ELSE "across")
                    ELSE IF acrossWord /\ ~downWord THEN "across"
                    ELSE IF downWord /\ ~acrossWord THEN "down"
                    ELSE selectedDirection
               /\ UNCHANGED <<selectedRow, selectedCol>>
          ELSE /\ selectedDirection' =
                    IF acrossWord /\ downWord THEN selectedDirection
                    ELSE IF acrossWord THEN "across"
                    ELSE IF downWord THEN "down"
                    ELSE selectedDirection
               /\ selectedRow' = row
               /\ selectedCol' = col
    /\ UNCHANGED <<codecVars, fillVars, phase, grid, rows, cols, wordVars, symmetry>>

\* key '.': toggle the block at the selected cell
KeyPeriod ==
    /\ phase = "edit"
    /\ LET wasBlack == grid[selectedRow][selectedCol].type = "black"
           newGrid == SetCell(grid, selectedRow, selectedCol,
                              IF wasBlack THEN EmptyCell ELSE BlackCell)
       IN /\ grid' = applySymmetry(newGrid, selectedRow, selectedCol, symmetry, rows, cols)
          /\ IF ~wasBlack THEN MoveForward(grid')
             ELSE UNCHANGED <<selectedRow, selectedCol>>
    /\ WordsFollow
    /\ UNCHANGED <<codecVars, fillVars, phase, rows, cols, symmetry, selectedDirection>>

\* keys Backspace and Delete
KeyBackspace ==
    /\ phase = "edit"
    /\ IF grid[selectedRow][selectedCol].type = "black"
       THEN /\ MoveBack(grid)
            /\ UNCHANGED <<grid, wordVars>>
       ELSE /\ grid' = applySymmetry(SetCell(grid, selectedRow, selectedCol, EmptyCell),
                                     selectedRow, selectedCol, symmetry, rows, cols)
            /\ MoveBack(grid')
            /\ WordsFollow
    /\ UNCHANGED <<codecVars, fillVars, phase, rows, cols, symmetry, selectedDirection>>

\* `event.key.toUpperCase()` on a key matching /[a-zA-Z]/
ToUpperCase(ch) == IF ch >= 97 /\ ch <= 122 THEN ch - 32 ELSE ch

\* a letter key
KeyLetter(key) ==
    /\ phase = "edit"
    /\ grid' = SetCell(grid, selectedRow, selectedCol, LetterCell(ToUpperCase(key)))
    /\ MoveForward(grid')
    /\ WordsFollow
    /\ UNCHANGED <<codecVars, fillVars, phase, rows, cols, symmetry, selectedDirection>>

\* settings panel, Clear Fill
handleClearFill ==
    /\ phase = "edit"
    /\ grid' = [r \in DOMAIN grid |-> [c \in DOMAIN grid[r] |->
                  IF grid[r][c].type = "letter" THEN EmptyCell ELSE grid[r][c]]]
    /\ WordsFollow
    /\ UNCHANGED <<codecVars, fillVars, phase, rows, cols, editVars>>

\* settings panel, Clear Grid
handleClearGrid ==
    /\ phase = "edit"
    /\ grid' = createEmptyGrid(rows, cols)
    /\ WordsFollow
    /\ UNCHANGED <<codecVars, fillVars, phase, rows, cols, editVars>>

-----------------------------------------------------------------------------
(* SpecEdit: editing a fresh grid, dimensions and symmetry mode held fixed *)

\* largest number of rows of the edited grid
MaxEditRows == 2

\* the numbers of columns of the edited grid
EditCols == {1, 2}

\* the letter key pressed: 'a'
LetterKeys == {97}

InitEdit ==
    /\ phase = "edit"
    /\ rows \in 1..MaxEditRows
    /\ cols \in EditCols
    /\ grid = createEmptyGrid(rows, cols)
    /\ detected = detectWords(grid)
    /\ words = numberWords(detected)
    /\ symmetry \in SymmetryTypes
    /\ selectedRow = 0
    /\ selectedCol = 0
    /\ selectedDirection = "across"
    /\ CodecAtRest
    /\ FillAtRest

NextEdit ==
    \/ \E r \in 0..(rows - 1), c \in 0..(cols - 1) : handleCellClick(r, c)
    \/ KeyPeriod
    \/ KeyBackspace
    \/ \E key \in LetterKeys : KeyLetter(key)
    \/ handleClearFill
    \/ handleClearGrid

SpecEdit == InitEdit /\ [][NextEdit]_vars

-----------------------------------------------------------------------------
(* Claims about symmetric editing                                          *)

\* the mirror position of (r, c) under a symmetry mode, as the specification
\* gives it
MirrorOf(symType, r, c) ==
    IF symType = "rotational" THEN <<rows - 1 - r, cols - 1 - c>>
    ELSE IF symType = "vertical" THEN <<r, cols - 1 - c>>
    ELSE IF symType = "horizontal" THEN <<rows - 1 - r, c>>
    ELSE <<r, c>>

IsBlack(g, p) == g[p[1]][p[2]].type = "black"

\* C6: toggling the selected cell with '.' makes it and its mirror cell
\* Black when it was not Black, and both non-Black when it was Black; no
\* cell other than these two changes, so a mirror position equal to the
\* cell itself (and symmetry mode None) means a single written cell.
C6_ToggleMirrors ==
    [][KeyPeriod =>
         LET sel == <<selectedRow, selectedCol>>
             mir == MirrorOf(symmetry, selectedRow, selectedCol)
         IN /\ ~IsBlack(grid, sel) => IsBlack(grid', sel) /\ IsBlack(grid', mir)
            /\ IsBlack(grid, sel) => ~IsBlack(grid', sel) /\ ~IsBlack(grid', mir)
            /\ \A p \in Cells(rows, cols) :
                 p # sel /\ p # mir => grid'[p[1]][p[2]] = grid[p[1]][p[2]]
      ]_vars

\* a block and its distinct rotational mirror have been set by one toggle
C6_Witness ==
    /\ symmetry = "rotational"
    /\ rows > 1
    /\ IsBlack(grid, <<0, 0>>)
    /\ IsBlack(grid, <<rows - 1, cols - 1>>)
    /\ \A p \in Cells(rows, cols) :
         p # <<0, 0>> /\ p # <<rows - 1, cols - 1>> => grid[p[1]][p[2]] = EmptyCell

\* C7: typing a letter into a playable cell, or deleting the content of a
\* playable cell with Backspace/Delete, changes no cell other than the
\* selected one, under every symmetry mode.
C7_LetterEditsStayLocal ==
    [][(/\ ~IsBlack(grid, <<selectedRow, selectedCol>>)
        /\ KeyBackspace \/ \E key \in LetterKeys : KeyLetter(key))
       => \A p \in Cells(rows, cols) :
            p # <<selectedRow, selectedCol>> => grid'[p[1]][p[2]] = grid[p[1]][p[2]]
      ]_vars

\* C8: with dimensions and a symmetry mode other than None fixed, after any
\* sequence of edits of a fresh grid a cell is Black iff its mirror is.
C8_BlocksSymmetric ==
    (phase = "edit" /\ symmetry # "none") =>
       \A p \in Cells(rows, cols) :
          IsBlack(grid, p) <=> IsBlack(grid, MirrorOf(symmetry, p[1], p[2]))

-----------------------------------------------------------------------------
(* Bounds and input sets                                                   *)

\* largest number of rows and of columns of the grids of the word index
MaxDim == 3

\* a grid with the given black cells; the playable cells are alternately
\* Letter 'A' and Empty
PatternGrid(r, c, blk) ==
    [i \in 0..(r - 1) |-> [j \in 0..(c - 1) |->
        IF <<i, j>> \in blk THEN BlackCell
        ELSE IF (i + j) % 2 = 0 THEN LetterCell(65)
        ELSE EmptyCell]]

-----------------------------------------------------------------------------
(* SpecWords: the word index of an arbitrary grid                          *)

InitWords ==
    /\ phase = "input"
    /\ rows \in 1..MaxDim
    /\ cols \in 1..MaxDim
    /\ \E blk \in SUBSET Cells(rows, cols) : grid = PatternGrid(rows, cols, blk)
    /\ detected = <<>>
    /\ words = <<>>
    /\ EditorAtRest
    /\ CodecAtRest
    /\ FillAtRest

\* the derived store `words`: numberWords(detectWords($grid))
DeriveWords ==
    /\ phase = "input"
    /\ detected' = detectWords(grid)
    /\ words' = numberWords(detected')
    /\ phase' = "numbered"
    /\ UNCHANGED <<codecVars, fillVars, grid, rows, cols, editVars>>

NextWords == DeriveWords

SpecWords == InitWords /\ [][NextWords]_vars

-----------------------------------------------------------------------------
(* Claims about the word index                                             *)

IsBlackAt(g, r, c) ==
    r < 0 \/ c < 0 \/ r >= GridRows(g) \/ c >= GridCols(g) \/ g[r][c].type = "black"

\* the cell before (r, c) in direction dir, and the i-th cell of a run
PrevCell(dir, r, c) == IF dir = "across" THEN <<r, c - 1>> ELSE <<r - 1, c>>
RunCell(dir, r, c, i) == IF dir = "across" THEN <<r, c + i>> ELSE <<r + i, c>>

WordCellsOf(w) == {RunCell(w.direction, w.startRow, w.startCol, i) : i \in 0..(w.length - 1)}

SeqRange(s) == {s[i] : i \in 1..Len(s)}

\* C9: detectWords returns exactly the maximal runs of non-Black cells of
\* every row and column, runs of length 1 included: an entry starts at a
\* cell iff the cell is non-Black and its predecessor is the boundary or
\* Black, it ends just before the next Black cell or the boundary, and
\* every non-Black cell lies in exactly one across and one down entry.
C9_MaximalRuns ==
    phase = "numbered" =>
      LET W == SeqRange(detected) IN
      /\ Cardinality(W) = Len(detected)
      /\ \A w \in W :
           /\ w.direction \in {"across", "down"}
           /\ w.length >= 1
           /\ w.id = <<w.direction, w.startRow, w.startCol>>
           /\ \A p \in WordCellsOf(w) : ~IsBlackAt(grid, p[1], p[2])
           /\ LET after == RunCell(w.direction, w.startRow, w.startCol, w.length)
              IN IsBlackAt(grid, after[1], after[2])
      /\ \A dir \in {"across", "down"}, p \in Cells(rows, cols) :
           LET prev == PrevCell(dir, p[1], p[2])
               startsHere == /\ ~IsBlackAt(grid, p[1], p[2])
                             /\ IsBlackAt(grid, prev[1], prev[2])
           IN /\ startsHere <=>
                   \E w \in W : w.direction = dir /\ w.startRow = p[1] /\ w.startCol = p[2]
              /\ ~IsBlackAt(grid, p[1], p[2]) =>
                   Cardinality({w \in W : w.direction = dir /\ p \in WordCellsOf(w)}) = 1

\* a grid with an isolated playable cell has been scanned
C9_Witness ==
    /\ phase = "numbered"
    /\ \E i \in 1..Len(detected) : detected[i].length = 1
    /\ \E i \in 1..Len(detected) : detected[i].length >= 2
    /\ \E p \in Cells(rows, cols) : grid[p[1]][p[2]].type = "black"

StartsOf(ws) == {<<ws[i].startRow, ws[i].startCol>> : i \in 1..Len(ws)}

\* C10: numberWords numbers the k distinct starting positions 1..k in
\* reading order (so entries starting at the same cell share a number and
\* entries starting at different cells do not), keeps every entry, and
\* returns them sorted by number with across before down.
C10_Numbering ==
    phase = "numbered" =>
      LET S == StartsOf(detected) IN
      /\ Len(words) = Len(detected)
      /\ {[words[i] EXCEPT !.number = 0] : i \in 1..Len(words)} = SeqRange(detected)
      /\ \A i \in 1..Len(words) :
           words[i].number =
             1 + Cardinality({p \in S : PosLess(p[1], p[2], words[i].startRow, words[i].startCol)})
      /\ {words[i].number : i \in 1..Len(words)} = 1..Cardinality(S)
      /\ \A i, j \in 1..Len(words) :
           i < j => \/ words[i].number < words[j].number
                    \/ /\ words[i].number = words[j].number
                       /\ words[i].direction = "across"
                       /\ words[j].direction = "down"

\* a numbered index with a shared number and with a later start that has
\* only one entry
C10_Witness ==
    /\ phase = "numbered"
    /\ \E i, j \in 1..Len(words) :
         i # j /\ words[i].number = words[j].number /\ words[i].number = 1
    /\ \E i \in 1..Len(words) :
         /\ words[i].number >= 3
         /\ \A j \in 1..Len(words) : j # i => words[j].number # words[i].number

-----------------------------------------------------------------------------
(* puzExport.ts: cksum_region and exportToPuz.  A file is a sequence of    *)
(* bytes; the byte at offset o of the source is element o + 1.             *)

\* `a ^ b` on two bytes
RECURSIVE BitXor(_, _)
BitXor(a, b) ==
    IF a = 0 THEN b
    ELSE IF b = 0 THEN a
    ELSE 2 * BitXor(a \div 2, b \div 2) + ((a + b) % 2)

\* the loop of cksum_region; the state c is a JavaScript number and nothing
\* is masked here
RECURSIVE cksum_loop(_, _, _, _)
cksum_loop(data, len, i, c) ==
    IF i >= len THEN c
    ELSE IF c % 2 = 1
         THEN cksum_loop(data, len, i + 1, (c \div 2) + 32768 + data[i + 1])
         ELSE cksum_loop(data, len, i + 1, (c \div 2) + data[i + 1])

\* `return cksum & 0xFFFF` after the loop
cksum_region(data, len, c) == cksum_loop(data, len, 0, c) % 65536

\* storing char codes into a Uint8Array
ToBytes(str) == [i \in 1..Len(str) |-> str[i] % 256]

cksum_string(str, c) == cksum_region(ToBytes(str), Len(str), c)

\* the character written for a cell: '.', the letter, or '-'
SolutionChar(cell) ==
    IF cell.type = "black" THEN 46
    ELSE IF cell.type = "letter" /\ cell.letter # 0 THEN ToUpperCase(cell.letter)
    ELSE 45

\* the board in reading order
BoardString(g, r, c) ==
    [k \in 1..(r * c) |-> SolutionChar(g[(k - 1) \div c][(k - 1) % c])]

\* `clues.get(word.id) || ''`
ClueText(clueMap, id) == IF id \in DOMAIN clueMap THEN clueMap[id] ELSE <<>>

\* is there a word of that direction with that number
HasWordFor(ws, dir, num) ==
    \E i \in 1..Len(ws) : ws[i].direction = dir /\ ws[i].number = num

\* the first word of that direction and number: later ones do not replace
\* the entry of acrossCluesByNumber / downCluesByNumber
FirstWordFor(ws, dir, num) ==
    LET hit(i) == ws[i].direction = dir /\ ws[i].number = num
    IN ws[CHOOSE i \in 1..Len(ws) : hit(i) /\ \A j \in 1..(i - 1) : ~hit(j)]

\* a set of numbers as an ascending array
RECURSIVE SortedNumbers(_)
SortedNumbers(S) ==
    IF S = {} THEN <<>>
    ELSE LET m == CHOOSE x \in S : \A y \in S : x <= y
         IN <<m>> \o SortedNumbers(S \ {m})

\* allClues: per number the across clue, then the down clue
RECURSIVE CollectClues(_, _, _)
CollectClues(nums, ws, clueMap) ==
    IF nums = <<>> THEN <<>>
    ELSE LET num == Head(nums)
             acrossClue == IF HasWordFor(ws, "across", num)
                           THEN <<ClueText(clueMap, FirstWordFor(ws, "across", num).id)>>
                           ELSE <<>>
             downClue == IF HasWordFor(ws, "down", num)
                         THEN <<ClueText(clueMap, FirstWordFor(ws, "down", num).id)>>
                         ELSE <<>>
         IN acrossClue \o downClue \o CollectClues(Tail(nums), ws, clueMap)

\* `str.substring(0, n)`
Substring(str, n) == SubSeq(str, 1, Min(Len(str), n))

\* 'Untitled Puzzle'
UntitledPuzzle == <<85, 110, 116, 105, 116, 108, 101, 100, 32, 80, 117, 122, 122, 108, 101>>

\* 'ACROSS&DOWN\0' and '1.3\0'
Magic == <<65, 67, 82, 79, 83, 83, 38, 68, 79, 87, 78, 0>>
Version == <<49, 46, 51, 0>>

\* setUint16(offset, n, true)
Uint16LE(n) == <<n % 256, (n \div 256) % 256>>

\* bytes of the zero-filled buffer that are never written
Zeros(n) == [i \in 1..n |-> 0]

\* every clue followed by its null terminator
RECURSIVE WriteClues(_)
WriteClues(allClues) ==
    IF allClues = <<>> THEN <<>>
    ELSE Head(allClues) \o <<0>> \o WriteClues(Tail(allClues))

\* the non-empty clues, fed without terminator
RECURSIVE cksum_clues(_, _)
cksum_clues(allClues, c) ==
    IF allClues = <<>> THEN c
    ELSE cksum_clues(Tail(allClues),
                     IF Len(Head(allClues)) > 0 THEN cksum_string(Head(allClues), c) ELSE c)

\* the strings folded into c_part and into the overall checksum
cksum_strings(title, authorStr, copyrightStr, allClues, notesStr, c0) ==
    LET c1 == IF Len(title) > 0 THEN cksum_string(title \o <<0>>, c0) ELSE c0
        c2 == IF Len(authorStr) > 0 THEN cksum_string(authorStr \o <<0>>, c1) ELSE c1
        c3 == IF Len(copyrightStr) > 0 THEN cksum_string(copyrightStr \o <<0>>, c2) ELSE c2
        c4 == cksum_clues(allClues, c3)
    IN IF Len(notesStr) > 0 THEN cksum_string(notesStr \o <<0>>, c4) ELSE c4

exportToPuz(data) ==
    LET ws == numberWords(detectWords(data.grid))
        solutionBytes == BoardString(data.grid, data.rows, data.cols)
        gridStateBytes == BoardString(data.grid, data.rows, data.cols)
        sortedClueNumbers == SortedNumbers({ws[i].number : i \in 1..Len(ws)})
        allClues == CollectClues(sortedClueNumbers, ws, data.clues)
        numClues == Len(allClues)
        title == Substring(IF data.puzzleTitle = <<>> THEN UntitledPuzzle
                           ELSE data.puzzleTitle, 50)
        authorStr == Substring(data.author, 50)
        copyrightStr == Substring(data.copyright, 200)
        notesStr == Substring(data.notes, 2000)
        cibData == <<data.cols % 256, data.rows % 256>>
                     \o Uint16LE(numClues) \o Uint16LE(0) \o Uint16LE(0)
        c_cib == cksum_region(cibData, 8, 0)
        c_sol == cksum_region(solutionBytes, Len(solutionBytes), 0)
        c_grid == cksum_region(gridStateBytes, Len(gridStateBytes), 0)
        c_part == cksum_strings(title, authorStr, copyrightStr, allClues, notesStr, 0)
        maskedLow == <<BitXor(73, c_cib % 256), BitXor(67, c_sol % 256),
                       BitXor(72, c_grid % 256), BitXor(69, c_part % 256)>>
        maskedHigh == <<BitXor(65, (c_cib \div 256) % 256), BitXor(84, (c_sol \div 256) % 256),
                        BitXor(69, (c_grid \div 256) % 256), BitXor(68, (c_part \div 256) % 256)>>
        overallChecksum ==
            cksum_strings(title, authorStr, copyrightStr, allClues, notesStr,
                cksum_region(gridStateBytes, Len(gridStateBytes),
                    cksum_region(solutionBytes, Len(solutionBytes), c_cib)))
    IN Uint16LE(overallChecksum) \o Magic \o Uint16LE(c_cib) \o maskedLow \o maskedHigh
         \o Version \o Zeros(2) \o Uint16LE(0) \o Zeros(12) \o cibData
         \o solutionBytes \o gridStateBytes
         \o title \o <<0>> \o authorStr \o <<0>> \o copyrightStr \o <<0>>
         \o WriteClues(allClues) \o <<0>>
         \o notesStr \o <<0>>

-----------------------------------------------------------------------------
(* puzImport.ts: importFromPuz                                             *)

\* view.getUint8(offset)
ByteAt(view, offset) == view[offset + 1]

RECURSIVE ReadString(_, _, _)
ReadString(view, currentOffset, str) ==
    IF currentOffset < Len(view)
    THEN IF ByteAt(view, currentOffset) = 0
         THEN [str |-> str, nextOffset |-> currentOffset + 1]
         ELSE ReadString(view, currentOffset + 1, Append(str, ByteAt(view, currentOffset)))
    ELSE [str |-> str, nextOffset |-> currentOffset]

readNullTerminatedString(view, offset) == ReadString(view, offset, <<>>)

\* the loop that reads the clue strings: empty strings are not kept, and a
\* null byte after a string ends the loop
RECURSIVE ReadClues(_, _, _, _)
ReadClues(view, numClues, offset, clueStrings) ==
    IF Len(clueStrings) < numClues /\ offset < Len(view)
    THEN LET clueResult == readNullTerminatedString(view, offset)
             kept == IF Len(clueResult.str) > 0
                     THEN Append(clueStrings, clueResult.str) ELSE clueStrings
             next == clueResult.nextOffset
         IN IF next < Len(view) /\ ByteAt(view, next) = 0
            THEN [clueStrings |-> kept, offset |-> next + 1]
            ELSE ReadClues(view, numClues, next, kept)
    ELSE [clueStrings |-> clueStrings, offset |-> offset]

\* the cell built from a solution character
CellOfChar(ch) ==
    IF ch = 46 THEN BlackCell
    ELSE IF ch = 45 \/ ch = 0 THEN EmptyCell
    ELSE LetterCell(ToUpperCase(ch))

\* wordsByNumber.get(num).across / .down: the last word stored there
LastWordFor(ws, dir, num) ==
    LET hit(i) == ws[i].direction = dir /\ ws[i].number = num
    IN ws[CHOOSE i \in 1..Len(ws) : hit(i) /\ \A j \in (i + 1)..Len(ws) : ~hit(j)]

\* map.set(key, value)
MapSet(m, key, value) == [k \in (DOMAIN m) \cup {key} |-> IF k = key THEN value ELSE m[k]]

\* the clue strings handed out in order: per number across, then down
RECURSIVE MapClues(_, _, _, _, _)
MapClues(nums, ws, clueStrings, clueIndex, clueMap) ==
    IF nums = <<>> THEN clueMap
    ELSE LET num == Head(nums)
             takeAcross == HasWordFor(ws, "across", num) /\ clueIndex < Len(clueStrings)
             map1 == IF takeAcross
                     THEN MapSet(clueMap, LastWordFor(ws, "across", num).id,
                                 clueStrings[clueIndex + 1])
                     ELSE clueMap
             index1 == IF takeAcross THEN clueIndex + 1 ELSE clueIndex
             takeDown == HasWordFor(ws, "down", num) /\ index1 < Len(clueStrings)
             map2 == IF takeDown
                     THEN MapSet(map1, LastWordFor(ws, "down", num).id, clueStrings[index1 + 1])
                     ELSE map1
             index2 == IF takeDown THEN index1 + 1 ELSE index1
         IN MapClues(Tail(nums), ws, clueStrings, index2, map2)

\* a read past the end of the buffer throws a RangeError, a wrong magic string
\* an Error; otherwise the puzzle is returned
importFromPuz(buffer) ==
    IF Len(buffer) < 14 THEN [error |-> "RangeError"]
    ELSE IF SubSeq(buffer, 3, 13) # SubSeq(Magic, 1, 11) THEN [error |-> "InvalidMagic"]
    ELSE IF Len(buffer) < 48 THEN [error |-> "RangeError"]
    ELSE
      LET nc == ByteAt(buffer, 44)
          nr == ByteAt(buffer, 45)
          numClues == ByteAt(buffer, 46) + 256 * ByteAt(buffer, 47)
      IN IF nr * nc > 0 /\ Len(buffer) < 52 + 2 * nr * nc THEN [error |-> "RangeError"]
         ELSE
           LET solutionGrid == SubSeq(buffer, 53, 52 + nr * nc)
               titleResult == readNullTerminatedString(buffer, 52 + 2 * nr * nc)
               authorResult == readNullTerminatedString(buffer, titleResult.nextOffset)
               copyrightResult == readNullTerminatedString(buffer, authorResult.nextOffset)
               cluesRead == ReadClues(buffer, numClues, copyrightResult.nextOffset, <<>>)
               notesStr == IF cluesRead.offset < Len(buffer)
                           THEN readNullTerminatedString(buffer, cluesRead.offset).str
                           ELSE <<>>
               g == [row \in 0..(nr - 1) |-> [col \in 0..(nc - 1) |->
                        CellOfChar(solutionGrid[row * nc + col + 1])]]
               ws == numberWords(detectWords(g))
               sortedNumbers == SortedNumbers({ws[i].number : i \in 1..Len(ws)})
           IN [error |-> "none", grid |-> g, rows |-> nr, cols |-> nc,
               clues |-> MapClues(sortedNumbers, ws, cluesRead.clueStrings, 0, EmptyMap),
               puzzleTitle |-> titleResult.str, author |-> authorResult.str,
               copyright |-> copyrightResult.str, notes |-> notesStr]

-----------------------------------------------------------------------------
(* SpecCksum: cksum_region applied to a region and an initial state        *)

\* largest number of bytes of a region
MaxBytes == 3

\* the bytes of the regions: 0, '.' and 0xFF
RegionBytes == {0, 46, 255}

\* the initial states: 0, 1, 0x8000 and 0xFFFF
InitialSums == {0, 1, 32768, 65535}

SeqsUpTo(S, n) == UNION {[1..k -> S] : k \in 0..n}

\* the stores of a one-cell puzzle nobody has edited
GridAtRest ==
    /\ rows = 1
    /\ cols = 1
    /\ grid = createEmptyGrid(1, 1)
    /\ detected = detectWords(grid)
    /\ words = numberWords(detected)
    /\ EditorAtRest

InitCksum ==
    /\ phase = "region"
    /\ GridAtRest
    /\ PuzzleAtRest
    /\ file \in SeqsUpTo(RegionBytes, MaxBytes)
    /\ imported = NotImported
    /\ cksum \in InitialSums
    /\ FillAtRest

ChecksumRegion ==
    /\ phase = "region"
    /\ cksum' = cksum_region(file, Len(file), cksum)
    /\ phase' = "summed"
    /\ UNCHANGED <<fillVars, grid, rows, cols, wordVars, editVars, puzVars, file, imported>>

NextCksum == ChecksumRegion

SpecCksum == InitCksum /\ [][NextCksum]_vars

-----------------------------------------------------------------------------
(* SpecPuz: a puzzle is exported and the file is imported again            *)

\* largest number of rows of an exported grid
MaxPuzRows == 2

\* the numbers of columns of an exported grid
PuzCols == {1, 2}

\* the cells of an exported grid
PuzCells == {BlackCell, EmptyCell, LetterCell(65)}

\* the clue of the i-th entry: 'a', 'b', ...
ClueOfEntry(i) == <<96 + i>>

\* a clue map that has clues for the entries with the given indices
CluesFor(ws, S) ==
    [id \in {ws[i].id : i \in S} |->
        ClueOfEntry(CHOOSE i \in S : ws[i].id = id)]

InitPuz ==
    /\ phase = "puzzle"
    /\ rows \in 1..MaxPuzRows
    /\ cols \in PuzCols
    /\ grid \in [0..(rows - 1) -> [0..(cols - 1) -> PuzCells]]
    /\ detected = detectWords(grid)
    /\ words = numberWords(detected)
    /\ EditorAtRest
    /\ \E S \in SUBSET (1..Len(words)) : clues = CluesFor(words, S)
    /\ puzzleTitle \in {<<>>, <<84>>}
    /\ \E by \in {<<>>, <<66>>} : author = by /\ copyright = by
    /\ notes \in {<<>>, <<78>>}
    /\ file = <<>>
    /\ imported = NotImported
    /\ cksum = 0
    /\ FillAtRest

Export ==
    /\ phase = "puzzle"
    /\ file' = exportToPuz([grid |-> grid, rows |-> rows, cols |-> cols, clues |-> clues,
                            puzzleTitle |-> puzzleTitle, author |-> author,
                            copyright |-> copyright, notes |-> notes])
    /\ phase' = "exported"
    /\ UNCHANGED <<fillVars, grid, rows, cols, wordVars, editVars, puzVars, imported, cksum>>

Import ==
    /\ phase = "exported"
    /\ imported' = importFromPuz(file)
    /\ phase' = "imported"
    /\ UNCHANGED <<fillVars, grid, rows, cols, wordVars, editVars, puzVars, file, cksum>>

NextPuz == Export \/ Import

SpecPuz == InitPuz /\ [][NextPuz]_vars

-----------------------------------------------------------------------------
(* Claims about the .puz codec                                             *)

\* the fold of the format: rotate right within 16 bits, add the byte, keep
\* 16 bits, byte after byte
RECURSIVE Fold16(_, _)
Fold16(bytes, c) ==
    IF bytes = <<>> THEN c
    ELSE IF c % 2 = 1
         THEN Fold16(Tail(bytes), ((c \div 2) + 32768 + Head(bytes)) % 65536)
         ELSE Fold16(Tail(bytes), ((c \div 2) + Head(bytes)) % 65536)

\* C4: for every initial state in 0..0xFFFF and every byte sequence,
\* cksum_region returns the fold that rotates the state right by one within
\* 16 bits, adds the byte and masks the sum to 16 bits before the next byte.
C4_MaskedFold ==
    [][ChecksumRegion => cksum' = Fold16(file, cksum)]_vars

\* n null-terminated strings read from offset on
RECURSIVE StringsAt(_, _, _)
StringsAt(view, offset, n) ==
    IF n = 0 THEN [strs |-> <<>>, offset |-> offset]
    ELSE LET first == readNullTerminatedString(view, offset)
             rest == StringsAt(view, first.nextOffset, n - 1)
         IN [strs |-> <<first.str>> \o rest.strs, offset |-> rest.offset]

RECURSIVE FoldClues(_, _)
FoldClues(strs, c) ==
    IF strs = <<>> THEN c
    ELSE FoldClues(Tail(strs), IF Head(strs) = <<>> THEN c ELSE Fold16(Head(strs), c))

\* the strings of a file folded into a state: title, author, copyright and
\* notes with their null when not empty, the non-empty clues without it
FoldStrings(head, clueStrs, notesStr, c) ==
    LET withNull(s, k) == IF s = <<>> THEN k ELSE Fold16(s \o <<0>>, k)
    IN withNull(notesStr,
         FoldClues(clueStrs, withNull(head[3], withNull(head[2], withNull(head[1], c)))))

\* C5: in every exported file the checksums recomputed from the written
\* bytes are the stored ones: the CIB checksum at 0x0E, the masked low and
\* high bytes at 0x10 and 0x14, and the overall checksum at 0x00.  The
\* strings are taken where the exporter puts them, the notes after the null
\* byte that follows the last clue.
C5_StoredChecksums ==
    phase = "exported" =>
      LET size == ByteAt(file, 44) * ByteAt(file, 45)
          numClues == ByteAt(file, 46) + 256 * ByteAt(file, 47)
          solution == SubSeq(file, 53, 52 + size)
          state == SubSeq(file, 53 + size, 52 + 2 * size)
          head == StringsAt(file, 52 + 2 * size, 3)
          clueStrs == StringsAt(file, head.offset, numClues)
          notesStr == readNullTerminatedString(file, clueStrs.offset + 1).str
          c_cib == Fold16(SubSeq(file, 45, 52), 0)
          c_sol == Fold16(solution, 0)
          c_grid == Fold16(state, 0)
          c_part == FoldStrings(head.strs, clueStrs.strs, notesStr, 0)
          overall == FoldStrings(head.strs, clueStrs.strs, notesStr,
                                 Fold16(state, Fold16(solution, c_cib)))
      IN /\ SubSeq(file, 15, 16) = Uint16LE(c_cib)
         /\ SubSeq(file, 17, 20) = <<BitXor(73, c_cib % 256), BitXor(67, c_sol % 256),
                                     BitXor(72, c_grid % 256), BitXor(69, c_part % 256)>>
         /\ SubSeq(file, 21, 24) = <<BitXor(65, c_cib \div 256), BitXor(84, c_sol \div 256),
                                     BitXor(69, c_grid \div 256), BitXor(68, c_part \div 256)>>
         /\ SubSeq(file, 1, 2) = Uint16LE(overall)

\* C3: importing an exported puzzle returns the grid, the clue of every
\* entry (none for an entry without clue), the title, the author, the
\* copyright and the notes that were exported, also for an empty title and
\* for entries without clue.
C3_RoundTrip ==
    phase = "imported" =>
      /\ imported.error = "none"
      /\ imported.rows = rows
      /\ imported.cols = cols
      /\ imported.grid = grid
      /\ DOMAIN imported.clues = DOMAIN clues
      /\ \A id \in DOMAIN clues : imported.clues[id] = clues[id]
      /\ imported.puzzleTitle = puzzleTitle
      /\ imported.author = author
      /\ imported.copyright = copyright
      /\ imported.notes = notes

-----------------------------------------------------------------------------
(* StatsPanel.svelte: the dictionary cache and the autofill search.  A     *)
(* dictionary item is [word, rating]; rating NullRating stands for null.   *)

\* wordMap of the cache block as the array of its entries in insertion
\* order: a word keeps its place, a null or lower rating is replaced
RECURSIVE UniqueWords(_, _)
UniqueWords(items, wordMap) ==
    IF items = <<>> THEN wordMap
    ELSE LET item == Head(items)
             at == {i \in 1..Len(wordMap) : wordMap[i].word = item.word}
         IN UniqueWords(Tail(items),
              IF at = {} THEN Append(wordMap, item)
              ELSE LET i == CHOOSE j \in at : TRUE
                       existing == wordMap[i].rating
                   IN IF existing = NullRating
                      THEN [wordMap EXCEPT ![i].rating = item.rating]
                      ELSE IF item.rating # NullRating /\ item.rating > existing
                      THEN [wordMap EXCEPT ![i].rating = item.rating]
                      ELSE wordMap)

\* uniqueWordsByLength.get(len) || []
UniqueWordsByLength(cache, len) == SelectSeq(cache, LAMBDA item : Len(item.word) = len)

\* '_' is char code 95
matchesPattern(word, pattern) ==
    /\ Len(word) = Len(pattern)
    /\ \A i \in 1..Len(pattern) : pattern[i] = 95 \/ pattern[i] = word[i]

\* gridUtils.ts getWordCells
getWordCells(g, word) ==
    [i \in 1..word.length |->
        IF word.direction = "across"
        THEN g[word.startRow][word.startCol + i - 1]
        ELSE g[word.startRow + i - 1][word.startCol]]

\* has the entry a cell without letter
NeedsFilling(g, word) ==
    \E i \in 1..word.length :
       LET cell == getWordCells(g, word)[i]
       IN cell.type = "empty" \/ (cell.type = "letter" /\ cell.letter = 0)

\* the pattern of an entry: its letters, '_' where there is none
PatternOf(g, word) ==
    [i \in 1..word.length |->
        LET cell == getWordCells(g, word)[i]
        IN IF cell.type = "letter" /\ cell.letter # 0 THEN ToUpperCase(cell.letter) ELSE 95]

\* the comparator of the candidate sort is negative: a goes before b
RatingBefore(a, b) ==
    IF a.rating # NullRating /\ b.rating # NullRating THEN b.rating - a.rating < 0
    ELSE a.rating # NullRating

RECURSIVE InsertByRating(_, _)
InsertByRating(sorted, item) ==
    IF sorted = <<>> THEN <<item>>
    ELSE IF RatingBefore(item, Head(sorted))
         THEN <<item>> \o sorted
         ELSE <<Head(sorted)>> \o InsertByRating(Tail(sorted), item)

RECURSIVE SortByRating(_, _)
SortByRating(items, acc) ==
    IF items = <<>> THEN acc ELSE SortByRating(Tail(items), InsertByRating(acc, Head(items)))

\* the candidates of an entry: filter by length and pattern, sort by rating
MatchesFor(cache, g, word) ==
    LET pattern == PatternOf(g, word)
        candidates == UniqueWordsByLength(cache, Len(pattern))
    IN SortByRating(SelectSeq(candidates, LAMBDA item : matchesPattern(item.word, pattern)),
                    <<>>)

\* `${word.direction}-${word.startRow}-${word.startCol}`
WordKey(word) == <<word.direction, word.startRow, word.startCol>>

\* mutant of hasConflict: every candidate is taken to conflict
hasConflict_always(baseGrid, word, selectedWord, currentSelections) == TRUE

\* the quick conflict check; it reads the stores rows and cols
hasConflict(baseGrid, word, selectedWord, currentSelections) ==
    \E i \in 0..(Min(Len(selectedWord), word.length) - 1) :
       LET letter == selectedWord[i + 1]
           row == IF word.direction = "across" THEN word.startRow ELSE word.startRow + i
           col == IF word.direction = "across" THEN word.startCol + i ELSE word.startCol
       IN /\ row >= 0 /\ row < rows /\ col >= 0 /\ col < cols
          /\ \/ LET cell == baseGrid[row][col]
                IN cell.type = "letter" /\ cell.letter # 0 /\ cell.letter # letter
             \/ \E key \in DOMAIN currentSelections :
                  LET other == currentSelections[key]
                      inAcross == /\ key[1] = "across" /\ key[2] = row
                                  /\ col >= key[3] /\ col < key[3] + Len(other)
                      inDown == /\ key[1] = "down" /\ key[3] = col
                                /\ row >= key[2] /\ row < key[2] + Len(other)
                      otherPos == IF inAcross THEN col - key[3] ELSE row - key[2]
                  IN /\ key[1] # word.direction
                     /\ inAcross \/ inDown
                     /\ otherPos >= 0 /\ otherPos < Len(other)
                     /\ other[otherPos + 1] # letter

\* mutant of FilledCell: the empty cell is left as it is
FilledCell_kept(existingCell, letter) == existingCell

\* the cell tryFillGrid puts in the place of an empty cell
FilledCell(existingCell, letter) == LetterCell(letter)

\* mutant of FillLimit: the last letter is not written
FillLimit_short(selectedWord, word) == Min(Len(selectedWord), word.length) - 1

\* the bound of the letter loop of tryFillGrid
FillLimit(selectedWord, word) == Min(Len(selectedWord), word.length)

\* the letter loop of tryFillGrid for one word, from letter i on; the
\* result is [filled, grid], filled = FALSE standing for null
RECURSIVE FillLetters(_, _, _, _)
FillLetters(newGrid, word, selectedWord, i) ==
    IF i >= FillLimit(selectedWord, word) THEN [filled |-> TRUE, grid |-> newGrid]
    ELSE LET letter == selectedWord[i + 1]
             row == IF word.direction = "across" THEN word.startRow ELSE word.startRow + i
             col == IF word.direction = "across" THEN word.startCol + i ELSE word.startCol
         IN IF row >= 0 /\ row < rows /\ col >= 0 /\ col < cols
            THEN LET existingCell == newGrid[row][col]
                 IN IF existingCell.type = "empty"
                    THEN FillLetters(SetCell(newGrid, row, col, FilledCell(existingCell, letter)),
                                     word, selectedWord, i + 1)
                    ELSE IF existingCell.type = "letter" /\ existingCell.letter # letter
                    THEN [filled |-> FALSE, grid |-> newGrid]
                    ELSE FillLetters(newGrid, word, selectedWord, i + 1)
            ELSE FillLetters(newGrid, word, selectedWord, i + 1)

RECURSIVE FillWords(_, _, _)
FillWords(newGrid, ws, wordSelections) ==
    IF ws = <<>> THEN [filled |-> TRUE, grid |-> newGrid]
    ELSE LET word == Head(ws)
             wordKey == WordKey(word)
         IN IF wordKey \notin DOMAIN wordSelections \/ wordSelections[wordKey] = <<>>
            THEN [filled |-> FALSE, grid |-> newGrid]
            ELSE LET done == FillLetters(newGrid, word, wordSelections[wordKey], 0)
                 IN IF done.filled THEN FillWords(done.grid, Tail(ws), wordSelections)
                    ELSE done

tryFillGrid(baseGrid, ws, wordSelections) == FillWords(baseGrid, ws, wordSelections)

\* mutant of FewerOptions: an entry with as many candidates replaces the
\* entry found before
FewerOptions_orAsMany(count, fewestOptions) == count <= fewestOptions

\* `options.length < fewestOptions`
FewerOptions(count, fewestOptions) == count < fewestOptions

\* the unselected entry with the fewest candidates, the first of them in
\* the order of wordsToFill; <<>> when every entry is selected
RECURSIVE MostConstrained(_, _, _, _)
MostConstrained(ws, options, currentSelections, best) ==
    IF ws = <<>> THEN best
    ELSE LET word == Head(ws)
             count == Len(options[WordKey(word)])
         IN MostConstrained(Tail(ws), options, currentSelections,
              IF WordKey(word) \in DOMAIN currentSelections THEN best
              ELSE IF best = <<>> \/ FewerOptions(count, Len(options[WordKey(best[1])]))
              THEN <<word>> ELSE best)

\* mutant of ReachedMax: the search never reports that it has enough
ReachedMax_never(found, maxVars) == FALSE

\* variations.length >= maxVariations
ReachedMax(found, maxVars) == found >= maxVars

\* the search.  st = [variations, seenCombinations, count] are the array,
\* the set and the counter the calls share; the value is [result, st].  A
\* combination key is the selection map itself.
RECURSIVE backtrackFill(_, _, _, _, _, _)
RECURSIVE TryOptions(_, _, _, _, _, _, _, _)

backtrackFill(g, ws, options, currentSelections, maxVars, st) ==
    IF Cardinality(DOMAIN currentSelections) = Len(ws)
    THEN IF currentSelections \in st.seenCombinations
         THEN [result |-> FALSE, st |-> st]
         ELSE LET seen == st.seenCombinations \cup {currentSelections}
                  filledGrid == tryFillGrid(g, ws, currentSelections)
              IN IF filledGrid.filled
                 THEN [result |-> ReachedMax(Len(st.variations) + 1, maxVars),
                       st |-> [variations |-> Append(st.variations, filledGrid.grid),
                               seenCombinations |-> seen,
                               count |-> st.count + 1]]
                 ELSE [result |-> FALSE, st |-> [st EXCEPT !.seenCombinations = seen]]
    ELSE LET best == MostConstrained(ws, options, currentSelections, <<>>)
         IN IF best = <<>> \/ Len(options[WordKey(best[1])]) = 0
            THEN [result |-> FALSE, st |-> st]
            ELSE TryOptions(g, ws, options, currentSelections, maxVars, best[1], 1, st)

\* the loop over the candidates of the chosen entry, from the k-th on
TryOptions(g, ws, options, currentSelections, maxVars, word, k, st) ==
    IF k > Len(options[WordKey(word)]) THEN [result |-> FALSE, st |-> st]
    ELSE LET option == options[WordKey(word)][k]
         IN IF hasConflict(g, word, option.word, currentSelections)
            THEN TryOptions(g, ws, options, currentSelections, maxVars, word, k + 1, st)
            ELSE LET testSelections == MapSet(currentSelections, WordKey(word), option.word)
                     testGrid == tryFillGrid(g,
                                   SelectSeq(ws, LAMBDA w : WordKey(w) \in DOMAIN testSelections),
                                   testSelections)
                 IN IF testGrid.filled
                    THEN LET r == backtrackFill(g, ws, options, testSelections, maxVars,
                                                [st EXCEPT !.count = @ + 1])
                         IN IF r.result THEN r
                            ELSE TryOptions(g, ws, options, currentSelections, maxVars,
                                            word, k + 1, r.st)
                    ELSE TryOptions(g, ws, options, currentSelections, maxVars, word, k + 1, st)

maxVariations == 100

\* generateAutofill up to its first timer: the busy flag is taken
GenerateStart ==
    /\ phase = "idle"
    /\ ~isAutofilling
    /\ isAutofilling' = TRUE
    /\ phase' = "analyzing"
    /\ UNCHANGED <<grid, rows, cols, wordVars, editVars, codecVars, suggestVars, combinedWordList,
                   uniqueWordsCache, runVars, autofillVariations, currentVariationIndex,
                   previewGrid, flagVars>>

\* generateAutofill between its first and second timer: the grid and the
\* words are read and the entries to fill are chosen
GenerateAnalyze ==
    /\ phase = "analyzing"
    /\ currentGrid' = grid
    /\ wordsToFill' = SelectSeq(words, LAMBDA word : NeedsFilling(grid, word))
    /\ IF wordsToFill' = <<>>
       THEN isAutofilling' = FALSE /\ phase' = "idle"
       ELSE isAutofilling' = TRUE /\ phase' = "finding"
    /\ UNCHANGED <<grid, rows, cols, wordVars, editVars, codecVars, suggestVars, combinedWordList,
                   uniqueWordsCache, wordOptions, autofillVariations, currentVariationIndex,
                   previewGrid, flagVars>>

\* mutant of GenerateOptions: the return at an entry without candidate
\* leaves the busy flag set
GenerateOptions_keepsFlag ==
    /\ phase = "finding"
    /\ wordOptions' = [key \in {WordKey(wordsToFill[i]) : i \in 1..Len(wordsToFill)} |->
                         MatchesFor(uniqueWordsCache, currentGrid,
                                    wordsToFill[CHOOSE i \in 1..Len(wordsToFill) :
                                                   WordKey(wordsToFill[i]) = key])]
    /\ IF \E key \in DOMAIN wordOptions' : wordOptions'[key] = <<>>
       THEN isAutofilling' = TRUE /\ phase' = "idle"
       ELSE isAutofilling' = TRUE /\ phase' = "generating"
    /\ UNCHANGED <<grid, rows, cols, wordVars, editVars, codecVars, suggestVars, combinedWordList,
                   uniqueWordsCache, currentGrid, wordsToFill, autofillVariations,
                   currentVariationIndex, previewGrid, flagVars>>

\* generateAutofill between its second and third timer: the candidates of
\* every entry; it returns at an entry without candidate
GenerateOptions ==
    /\ phase = "finding"
    /\ wordOptions' = [key \in {WordKey(wordsToFill[i]) : i \in 1..Len(wordsToFill)} |->
                         MatchesFor(uniqueWordsCache, currentGrid,
                                    wordsToFill[CHOOSE i \in 1..Len(wordsToFill) :
                                                   WordKey(wordsToFill[i]) = key])]
    /\ IF \E key \in DOMAIN wordOptions' : wordOptions'[key] = <<>>
       THEN isAutofilling' = FALSE /\ phase' = "idle"
       ELSE isAutofilling' = TRUE /\ phase' = "generating"
    /\ UNCHANGED <<grid, rows, cols, wordVars, editVars, codecVars, suggestVars, combinedWordList,
                   uniqueWordsCache, currentGrid, wordsToFill, autofillVariations,
                   currentVariationIndex, previewGrid, flagVars>>

\* generateAutofill after its third timer: the search and its outcome
GenerateSearch ==
    /\ phase = "generating"
    /\ LET r == backtrackFill(currentGrid, wordsToFill, wordOptions, EmptyMap, maxVariations,
                              [variations |-> <<>>, seenCombinations |-> {}, count |-> 0])
           variations == r.st.variations
       IN /\ autofillVariations' = variations
          /\ currentVariationIndex' = IF Len(variations) > 0 THEN 0 ELSE -1
          /\ previewGrid' = IF Len(variations) > 0 THEN <<variations[1]>> ELSE <<>>
          /\ autofillJustCompleted' = (Len(variations) > 0)
    /\ isAutofilling' = FALSE
    /\ phase' = "idle"
    /\ UNCHANGED <<grid, rows, cols, wordVars, editVars, codecVars, suggestVars, combinedWordList,
                   uniqueWordsCache, runVars, isApplyingAutofill>>

\* the buttons Previous and Next are enabled with more than one variation
\* and no search running
nextVariation ==
    /\ ~isAutofilling
    /\ Len(autofillVariations) > 1
    /\ currentVariationIndex' = (currentVariationIndex + 1) % Len(autofillVariations)
    /\ previewGrid' = <<autofillVariations[currentVariationIndex' + 1]>>
    /\ UNCHANGED <<phase, grid, rows, cols, wordVars, editVars, codecVars, suggestVars, combinedWordList,
                   uniqueWordsCache, isAutofilling, runVars, autofillVariations, flagVars>>

previousVariation ==
    /\ ~isAutofilling
    /\ Len(autofillVariations) > 1
    /\ currentVariationIndex' =
          (currentVariationIndex - 1 + Len(autofillVariations)) % Len(autofillVariations)
    /\ previewGrid' = <<autofillVariations[currentVariationIndex' + 1]>>
    /\ UNCHANGED <<phase, grid, rows, cols, wordVars, editVars, codecVars, suggestVars, combinedWordList,
                   uniqueWordsCache, isAutofilling, runVars, autofillVariations, flagVars>>

\* the button Discard Fill is shown with a variation and no search running
clearPreview ==
    /\ ~isAutofilling
    /\ Len(autofillVariations) > 0
    /\ previewGrid' = <<>>
    /\ autofillVariations' = <<>>
    /\ currentVariationIndex' = -1
    /\ UNCHANGED <<phase, grid, rows, cols, wordVars, editVars, codecVars, suggestVars, combinedWordList,
                   uniqueWordsCache, isAutofilling, runVars, flagVars>>

-----------------------------------------------------------------------------
(* StatsPanel.svelte: the suggestions for the selected entry               *)

\* minRating and maxRating are NullRating when no bound is set
matchesRating(rating, min, max) ==
    /\ ~(min # NullRating /\ (rating = NullRating \/ rating < min))
    /\ ~(max # NullRating /\ (rating = NullRating \/ rating > max))

\* $words.find(...): <<>> when no word of the selected direction holds the
\* selected cell
CurrentWord(ws, row, col, direction) ==
    LET at == {i \in 1..Len(ws) :
                 /\ ws[i].direction = direction
                 /\ IF direction = "across"
                    THEN /\ ws[i].startRow = row
                         /\ col >= ws[i].startCol /\ col < ws[i].startCol + ws[i].length
                    ELSE /\ ws[i].startCol = col
                         /\ row >= ws[i].startRow /\ row < ws[i].startRow + ws[i].length}
    IN IF at = {} THEN <<>> ELSE <<ws[CHOOSE i \in at : \A j \in at : i <= j]>>

\* a.localeCompare(b) for words over the capitals A..Z, which collate in
\* the order of their char codes
RECURSIVE localeCompare(_, _)
localeCompare(a, b) ==
    IF a = <<>> /\ b = <<>> THEN 0
    ELSE IF a = <<>> THEN -1
    ELSE IF b = <<>> THEN 1
    ELSE IF Head(a) < Head(b) THEN -1
    ELSE IF Head(a) > Head(b) THEN 1
    ELSE localeCompare(Tail(a), Tail(b))

\* the comparator of the suggestion sort
CompareSuggestions(a, b, by) ==
    IF by = "rating"
    THEN IF a.rating # NullRating /\ b.rating # NullRating /\ b.rating # a.rating
         THEN b.rating - a.rating
         ELSE IF a.rating # NullRating /\ b.rating = NullRating THEN -1
         ELSE IF a.rating = NullRating /\ b.rating # NullRating THEN 1
         ELSE localeCompare(a.word, b.word)
    ELSE localeCompare(a.word, b.word)

RECURSIVE InsertSuggestion(_, _, _)
InsertSuggestion(sorted, item, by) ==
    IF sorted = <<>> THEN <<item>>
    ELSE IF CompareSuggestions(item, Head(sorted), by) < 0
         THEN <<item>> \o sorted
         ELSE <<Head(sorted)>> \o InsertSuggestion(Tail(sorted), item, by)

RECURSIVE SortSuggestions(_, _, _)
SortSuggestions(items, by, acc) ==
    IF items = <<>> THEN acc
    ELSE SortSuggestions(Tail(items), by, InsertSuggestion(acc, Head(items), by))

\* the value the reactive block gives allFilteredSuggestions
FilteredSuggestions(ws, g, row, col, direction, cache, by, min, max) ==
    LET currentWord == CurrentWord(ws, row, col, direction)
    IN IF currentWord # <<>> /\ Len(cache) > 0
       THEN LET pattern == PatternOf(g, currentWord[1])
                candidates == UniqueWordsByLength(cache, Len(pattern))
            IN SortSuggestions(
                 SelectSeq(candidates,
                           LAMBDA item : /\ matchesPattern(item.word, pattern)
                                         /\ matchesRating(item.rating, min, max)),
                 by, <<>>)
       ELSE <<>>

itemsPerPage == 50

\* allFilteredSuggestions.slice(startIndex, endIndex)
PageOf(all, page) ==
    SubSeq(all, Min((page - 1) * itemsPerPage, Len(all)) + 1,
           Min(page * itemsPerPage, Len(all)))

\* Math.ceil(allFilteredSuggestions.length / itemsPerPage)
totalPages(all) == (Len(all) + itemsPerPage - 1) \div itemsPerPage

\* the suggestion blocks have run on the present selection, grid and filters
SuggestionsCurrent ==
    /\ allFilteredSuggestions =
          FilteredSuggestions(words, grid, selectedRow, selectedCol, selectedDirection,
                              uniqueWordsCache, sortBy, minRating, maxRating)
    /\ currentPage = 1
    /\ suggestions = PageOf(allFilteredSuggestions, currentPage)

\* the suggestion blocks run again after a step that changed what they read
RefreshSuggestions ==
    /\ allFilteredSuggestions' =
          FilteredSuggestions(words', grid', selectedRow', selectedCol', selectedDirection',
                              uniqueWordsCache', sortBy', minRating', maxRating')
    /\ currentPage' = 1
    /\ suggestions' = PageOf(allFilteredSuggestions', currentPage')

\* the fill panel as mounted: no filter, sorted by rating
FiltersAtRest ==
    /\ sortBy = "rating"
    /\ minRating = NullRating
    /\ maxRating = NullRating

-----------------------------------------------------------------------------
(* SpecFill: autofill runs on a grid with a word list, nothing else        *)
(* happening between the steps of a run                                    *)

\* largest number of rows of a grid to fill
MaxFillRows == 2

\* the numbers of columns of a grid to fill
FillCols == {1, 2}

\* the cells of a grid to fill
FillCells == {BlackCell, EmptyCell, LetterCell(65)}

Item(word, rating) == [word |-> word, rating |-> rating]

\* word lists: one with words of every length up to three and a word listed
\* twice, one without one-letter words, one that cannot fill every grid
WordList1 ==
    <<Item(<<65>>, 50), Item(<<66>>, NullRating), Item(<<65, 66>>, 10),
      Item(<<66, 65>>, 20), Item(<<65, 65>>, NullRating), Item(<<65, 66>>, 30),
      Item(<<65, 66, 65>>, NullRating), Item(<<66, 65, 66>>, 5)>>
WordList2 == <<Item(<<65, 66>>, NullRating), Item(<<66, 65>>, NullRating)>>
WordList3 == <<Item(<<65>>, NullRating), Item(<<65, 65>>, 40), Item(<<66>>, 40)>>

\* a list whose words of one length have one rating
WordList4 ==
    <<Item(<<65>>, NullRating), Item(<<66>>, NullRating), Item(<<65, 66>>, 10),
      Item(<<66, 65>>, 10)>>

\* a list whose words of one rating are not loaded in alphabetical order
WordList5 == <<Item(<<66>>, 10), Item(<<65>>, 10)>>

WordLists == {WordList1, WordList2, WordList3, WordList4, WordList5}

InitFill ==
    /\ phase = "idle"
    /\ rows \in 1..MaxFillRows
    /\ cols \in FillCols
    /\ grid \in [0..(rows - 1) -> [0..(cols - 1) -> FillCells]]
    /\ detected = detectWords(grid)
    /\ words = numberWords(detected)
    /\ EditorAtRest
    /\ CodecAtRest
    /\ combinedWordList \in WordLists
    /\ uniqueWordsCache = UniqueWords(combinedWordList, <<>>)
    /\ isAutofilling = FALSE
    /\ currentGrid = createEmptyGrid(0, 0)
    /\ wordsToFill = <<>>
    /\ wordOptions = EmptyMap
    /\ autofillVariations = <<>>
    /\ currentVariationIndex = -1
    /\ previewGrid = <<>>
    /\ isApplyingAutofill = FALSE
    /\ autofillJustCompleted = FALSE
    /\ FiltersAtRest
    /\ SuggestionsCurrent

NextFill ==
    \/ GenerateStart
    \/ GenerateAnalyze
    \/ GenerateOptions
    \/ GenerateSearch
    \/ nextVariation
    \/ previousVariation
    \/ clearPreview

SpecFill == InitFill /\ [][NextFill]_vars

-----------------------------------------------------------------------------
(* Claims about autofill                                                   *)

\* the letters an entry holds in a grid, 0 for a cell without letter
EntryLetters(g, w) ==
    [i \in 1..w.length |->
        LET p == RunCell(w.direction, w.startRow, w.startCol, i - 1)
        IN IF g[p[1]][p[2]].type = "letter" THEN g[p[1]][p[2]].letter ELSE 0]

DictionaryWords == {combinedWordList[i].word : i \in 1..Len(combinedWordList)}

\* C1: in every variation of a run on grid g, every entry that was
\* incomplete in g holds a dictionary word of its length that agrees with
\* the letters the entry had in g (so two crossing entries, reading the same
\* cell, agree on it); every Letter cell of g keeps its letter and every
\* Black cell stays Black: no cell changes except from Empty to Letter.
C1_FillsConsistent ==
    \A k \in 1..Len(autofillVariations) :
       LET g == currentGrid
           f == autofillVariations[k]
       IN /\ DOMAIN f = DOMAIN g
          /\ \A r \in DOMAIN g : DOMAIN f[r] = DOMAIN g[r]
          /\ \A p \in Cells(GridRows(g), GridCols(g)) :
               IF g[p[1]][p[2]].type = "empty"
               THEN f[p[1]][p[2]].type \in {"empty", "letter"}
               ELSE f[p[1]][p[2]] = g[p[1]][p[2]]
          /\ \A w \in SeqRange(detectWords(g)) :
               (\E i \in 1..w.length : EntryLetters(g, w)[i] = 0) =>
                  /\ EntryLetters(f, w) \in DictionaryWords
                  /\ \A i \in 1..w.length :
                       EntryLetters(g, w)[i] # 0 =>
                          EntryLetters(f, w)[i] = EntryLetters(g, w)[i]

\* a finished run with a variation, on a grid with a Black cell and an
\* entry of two cells of which one had its letter
C1_Witness ==
    /\ ~isAutofilling
    /\ Len(autofillVariations) >= 1
    /\ \E p \in Cells(rows, cols) : currentGrid[p[1]][p[2]].type = "black"
    /\ \E i \in 1..Len(wordsToFill) :
         /\ wordsToFill[i].length = 2
         /\ \E a, b \in 1..2 : /\ EntryLetters(currentGrid, wordsToFill[i])[a] = 0
                               /\ EntryLetters(currentGrid, wordsToFill[i])[b] # 0

\* the words a variation gives to the entries the run filled
AssignmentOf(f) ==
    [key \in {WordKey(wordsToFill[i]) : i \in 1..Len(wordsToFill)} |->
        EntryLetters(f, wordsToFill[CHOOSE i \in 1..Len(wordsToFill) :
                                       WordKey(wordsToFill[i]) = key])]

\* C2: no two variations of one run give the same words to the entries, and
\* no two of them are the same grid.
C2_VariationsDistinct ==
    \A i, j \in 1..Len(autofillVariations) :
       i # j => /\ autofillVariations[i] # autofillVariations[j]
                /\ AssignmentOf(autofillVariations[i]) # AssignmentOf(autofillVariations[j])

\* a finished run with more than two variations
C2_Witness ==
    /\ ~isAutofilling
    /\ Len(autofillVariations) >= 3
    /\ Len(wordsToFill) >= 3

\* the letters of the words of the word list
ListLetters ==
    UNION {{combinedWordList[i].word[j] : j \in 1..Len(combinedWordList[i].word)} :
             i \in 1..Len(combinedWordList)}

EmptyCellsOf(g) == {p \in Cells(GridRows(g), GridCols(g)) : g[p[1]][p[2]].type = "empty"}

\* g with the letters a in its Empty cells
Completed(g, a) ==
    [r \in DOMAIN g |-> [c \in DOMAIN g[r] |->
        IF <<r, c>> \in DOMAIN a THEN LetterCell(a[<<r, c>>]) ELSE g[r][c]]]

IncompleteLong(g) ==
    {w \in SeqRange(detectWords(g)) :
        w.length >= 2 /\ \E i \in 1..w.length : EntryLetters(g, w)[i] = 0}

\* some letters in the Empty cells of g make a word of the list of every
\* incomplete entry of two cells or more
AdmitsFill(g) ==
    \E a \in [EmptyCellsOf(g) -> ListLetters] :
       \A w \in IncompleteLong(g) : EntryLetters(Completed(g, a), w) \in DictionaryWords

\* C12: the entries a run fills have two cells or more, and a run on a grid
\* whose incomplete entries of two cells or more admit a consistent fill
\* ends with a variation, also when an Empty cell lies in a run of one cell.
C12_ShortEntriesExempt ==
    [][/\ GenerateAnalyze =>
            \A i \in 1..Len(wordsToFill') : wordsToFill'[i].length >= 2
       /\ (isAutofilling /\ ~isAutofilling') =>
            LET g == currentGrid'
            IN (IncompleteLong(g) # {} /\ AdmitsFill(g)) => Len(autofillVariations') > 0]_vars

Reverse(s) == [i \in 1..Len(s) |-> s[Len(s) + 1 - i]]

\* the list loaded in other orders: backwards, and from its k-th word on
Reorderings(list) ==
    {Reverse(list)} \cup
    {SubSeq(list, k, Len(list)) \o SubSeq(list, 1, k - 1) : k \in 1..Len(list)}

\* the variations the search returns for the entries ws of grid g when the
\* cache is built from list
SearchWith(list, g, ws) ==
    LET cache == UniqueWords(list, <<>>)
        options == [key \in {WordKey(ws[i]) : i \in 1..Len(ws)} |->
                       MatchesFor(cache, g, ws[CHOOSE i \in 1..Len(ws) : WordKey(ws[i]) = key])]
    IN backtrackFill(g, ws, options, EmptyMap, maxVariations,
                     [variations |-> <<>>, seenCombinations |-> {}, count |-> 0]).st.variations

\* C14: the variations of a search, and their order, are those of a search
\* on the same grid with the same words loaded in any other order.
C14_LoadOrderIndependent ==
    [][GenerateSearch =>
         \A list \in Reorderings(combinedWordList) :
            SearchWith(list, currentGrid, wordsToFill) = autofillVariations']_vars

-----------------------------------------------------------------------------
(* SpecCap: searches on open grids with a list that has more fills than    *)
(* one search returns                                                      *)

\* the number of letters of the words of CapWordList
CapLetters == 4

\* the one-letter words, then every word of two letters
CapWordList ==
    [i \in 1..CapLetters |-> Item(<<64 + i>>, NullRating)] \o
    [i \in 1..(CapLetters * CapLetters) |->
        Item(<<65 + ((i - 1) \div CapLetters), 65 + ((i - 1) % CapLetters)>>,
             IF i % 3 = 0 THEN NullRating ELSE i)]

InitCap ==
    /\ phase = "idle"
    /\ rows \in 1..MaxFillRows
    /\ cols = 2
    /\ grid \in [0..(rows - 1) -> [0..(cols - 1) -> {EmptyCell, LetterCell(65)}]]
    /\ detected = detectWords(grid)
    /\ words = numberWords(detected)
    /\ EditorAtRest
    /\ CodecAtRest
    /\ combinedWordList = CapWordList
    /\ uniqueWordsCache = UniqueWords(combinedWordList, <<>>)
    /\ isAutofilling = FALSE
    /\ currentGrid = createEmptyGrid(0, 0)
    /\ wordsToFill = <<>>
    /\ wordOptions = EmptyMap
    /\ autofillVariations = <<>>
    /\ currentVariationIndex = -1
    /\ previewGrid = <<>>
    /\ isApplyingAutofill = FALSE
    /\ autofillJustCompleted = FALSE
    /\ FiltersAtRest
    /\ SuggestionsCurrent

NextCap ==
    \/ GenerateStart
    \/ GenerateAnalyze
    \/ GenerateOptions
    \/ GenerateSearch
    \/ clearPreview

SpecCap == InitCap /\ [][NextCap]_vars

\* the first n elements of s
Prefix(s, n) == SubSeq(s, 1, Min(n, Len(s)))

\* C15: a search returns at most maxVariations variations, and they are the
\* first maxVariations of the search that is not stopped: once the list is
\* that long no candidate is tried and no variation is appended, at any
\* level of the recursion.
C15_AtMostMaxVariations ==
    [][GenerateSearch =>
         /\ Len(autofillVariations') <= maxVariations
         /\ autofillVariations' =
              Prefix(backtrackFill(currentGrid, wordsToFill, wordOptions, EmptyMap,
                                   maxVariations * maxVariations,
                                   [variations |-> <<>>, seenCombinations |-> {},
                                    count |-> 0]).st.variations,
                     maxVariations)]_vars

\* a search that stopped with the list full on a grid with more fills
C15_Witness ==
    /\ ~isAutofilling
    /\ Len(autofillVariations) = maxVariations
    /\ Cardinality(EmptyCellsOf(currentGrid)) = 4

-----------------------------------------------------------------------------
(* StatsPanel.svelte: applying a variation, and the reaction of the panel  *)
(* to an edit of the grid                                                  *)

\* mutant of AppliedGrid: the first variation whatever is shown
AppliedGrid_first(variations, index) == variations[1]

\* autofillVariations[currentVariationIndex]
AppliedGrid(variations, index) == variations[index + 1]

\* the button Accept Fill is shown with a variation and no search running
applyAutofill ==
    /\ ~isAutofilling
    /\ Len(autofillVariations) > 0
    /\ currentVariationIndex >= 0 /\ currentVariationIndex < Len(autofillVariations)
    /\ isApplyingAutofill' = TRUE
    /\ grid' = AppliedGrid(autofillVariations, currentVariationIndex)
    /\ detected' = detectWords(grid')
    /\ words' = numberWords(detected')
    /\ previewGrid' = <<>>
    /\ autofillVariations' = <<>>
    /\ currentVariationIndex' = -1
    /\ UNCHANGED <<phase, rows, cols, editVars, codecVars, filterVars, combinedWordList, uniqueWordsCache,
                   isAutofilling, runVars, autofillJustCompleted>>
    /\ RefreshSuggestions

\* the timer applyAutofill starts
ApplyTimer ==
    /\ isApplyingAutofill
    /\ isApplyingAutofill' = FALSE
    /\ UNCHANGED <<phase, grid, rows, cols, wordVars, editVars, codecVars, suggestVars, combinedWordList,
                   uniqueWordsCache, isAutofilling, runVars, autofillVariations,
                   currentVariationIndex, previewGrid, autofillJustCompleted>>

\* the grid store is set by an edit of one cell, and the reactive block of
\* the panel sees a grid that differs from its snapshot
GridEdited(row, col, cell) ==
    /\ grid[row][col] # cell
    /\ grid' = SetCell(grid, row, col, cell)
    /\ detected' = detectWords(grid')
    /\ words' = numberWords(detected')
    /\ IF /\ ~isAutofilling /\ ~isApplyingAutofill /\ ~autofillJustCompleted
          /\ previewGrid # <<>>
       THEN /\ previewGrid' = <<>>
            /\ autofillVariations' = <<>>
            /\ currentVariationIndex' = -1
            /\ autofillJustCompleted' = FALSE
       ELSE UNCHANGED <<previewGrid, autofillVariations, currentVariationIndex,
                        autofillJustCompleted>>
    /\ UNCHANGED <<phase, rows, cols, editVars, codecVars, filterVars, combinedWordList, uniqueWordsCache,
                   isAutofilling, runVars, isApplyingAutofill>>
    /\ RefreshSuggestions

-----------------------------------------------------------------------------
(* SpecPreview: searches, the preview controls and edits of the grid       *)

\* the numbers of columns of the one-row grids of SpecPreview
PreviewCols == {1, 2}

\* the cells an edit writes
EditedCells == {EmptyCell, LetterCell(65), LetterCell(66)}

InitPreview ==
    /\ phase = "idle"
    /\ rows = 1
    /\ cols \in PreviewCols
    /\ grid \in [0..(rows - 1) -> [0..(cols - 1) -> {BlackCell, EmptyCell}]]
    /\ detected = detectWords(grid)
    /\ words = numberWords(detected)
    /\ EditorAtRest
    /\ CodecAtRest
    /\ combinedWordList \in {WordList3, WordList4}
    /\ uniqueWordsCache = UniqueWords(combinedWordList, <<>>)
    /\ isAutofilling = FALSE
    /\ currentGrid = createEmptyGrid(0, 0)
    /\ wordsToFill = <<>>
    /\ wordOptions = EmptyMap
    /\ autofillVariations = <<>>
    /\ currentVariationIndex = -1
    /\ previewGrid = <<>>
    /\ isApplyingAutofill = FALSE
    /\ autofillJustCompleted = FALSE
    /\ FiltersAtRest
    /\ SuggestionsCurrent

NextPreview ==
    \/ GenerateStart
    \/ GenerateAnalyze
    \/ GenerateOptions
    \/ GenerateSearch
    \/ nextVariation
    \/ previousVariation
    \/ clearPreview
    \/ applyAutofill
    \/ ApplyTimer
    \/ \E p \in Cells(rows, cols), cell \in EditedCells : GridEdited(p[1], p[2], cell)

SpecPreview == InitPreview /\ [][NextPreview]_vars

\* C13: a run that ends because an entry has no candidate, or because the
\* search found no fill, leaves no variation and no preview, and the grid
\* as it was.
C13_FailedRunIsEmpty ==
    [][(\/ GenerateOptions /\ ~isAutofilling'
        \/ GenerateSearch /\ ~autofillJustCompleted')
       => /\ autofillVariations' = <<>>
          /\ currentVariationIndex' = -1
          /\ previewGrid' = <<>>
          /\ grid' = grid]_vars

\* C16: a step of a search, Next, Previous and Discard leave the grid as it
\* is; Accept makes the grid the variation that was shown and clears the
\* preview and the list of variations.
C16_OnlyApplyWritesGrid ==
    [][/\ (\/ GenerateStart \/ GenerateAnalyze \/ GenerateOptions \/ GenerateSearch
           \/ nextVariation \/ previousVariation \/ clearPreview) => grid' = grid
       /\ applyAutofill =>
            /\ previewGrid # <<>> => grid' = previewGrid[1]
            /\ grid' = autofillVariations[currentVariationIndex + 1]
            /\ previewGrid' = <<>>
            /\ autofillVariations' = <<>>]_vars

\* a variation other than the first has been applied to a grid that was
\* edited after the search
C16_Witness ==
    /\ isApplyingAutofill
    /\ autofillVariations = <<>>
    /\ previewGrid = <<>>
    /\ \E p \in Cells(rows, cols) :
          /\ currentGrid[p[1]][p[2]].type = "empty"
          /\ grid[p[1]][p[2]] = LetterCell(66)
    /\ \E p \in Cells(rows, cols) :
          /\ currentGrid[p[1]][p[2]].type = "empty"
          /\ grid[p[1]][p[2]] = LetterCell(65)

-----------------------------------------------------------------------------
(* SpecSuggest: the suggestions under changes of selection, sort order and *)
(* rating bounds                                                           *)

\* the cell and direction selected in the grid change
SelectionChanged(row, col, direction) ==
    /\ <<row, col, direction>> # <<selectedRow, selectedCol, selectedDirection>>
    /\ selectedRow' = row
    /\ selectedCol' = col
    /\ selectedDirection' = direction
    /\ UNCHANGED <<phase, grid, rows, cols, wordVars, symmetry, codecVars, filterVars,
                   combinedWordList, uniqueWordsCache, isAutofilling, runVars,
                   autofillVariations, currentVariationIndex, previewGrid, flagVars>>
    /\ RefreshSuggestions

\* on:change of the select Sort By; the suggestion block reads sortBy
SetSortBy(value) ==
    /\ value # sortBy
    /\ sortBy' = value
    /\ UNCHANGED <<phase, grid, rows, cols, wordVars, editVars, codecVars, minRating,
                   maxRating, combinedWordList, uniqueWordsCache, isAutofilling, runVars,
                   autofillVariations, currentVariationIndex, previewGrid, flagVars>>
    /\ RefreshSuggestions

\* on:input of Min Rating: the bound is assigned, at once and again after
\* the debounce; the suggestion block reads the bound only through
\* matchesRating, so the assignment does not make it run
SetMinRating(numValue) ==
    /\ numValue # minRating
    /\ minRating' = numValue
    /\ UNCHANGED <<phase, grid, rows, cols, wordVars, editVars, codecVars, sortBy, maxRating,
                   allFilteredSuggestions, currentPage, suggestions, combinedWordList,
                   uniqueWordsCache, isAutofilling, runVars, autofillVariations,
                   currentVariationIndex, previewGrid, flagVars>>

\* on:input of Max Rating
SetMaxRating(numValue) ==
    /\ numValue # maxRating
    /\ maxRating' = numValue
    /\ UNCHANGED <<phase, grid, rows, cols, wordVars, editVars, codecVars, sortBy, minRating,
                   allFilteredSuggestions, currentPage, suggestions, combinedWordList,
                   uniqueWordsCache, isAutofilling, runVars, autofillVariations,
                   currentVariationIndex, previewGrid, flagVars>>

\* the rating bounds a user enters
RatingBounds == {NullRating, 25}

InitSuggest ==
    /\ phase = "idle"
    /\ rows \in 1..MaxFillRows
    /\ cols \in FillCols
    /\ grid \in [0..(rows - 1) -> [0..(cols - 1) -> FillCells]]
    /\ detected = detectWords(grid)
    /\ words = numberWords(detected)
    /\ EditorAtRest
    /\ CodecAtRest
    /\ combinedWordList \in {WordList1, WordList4}
    /\ uniqueWordsCache = UniqueWords(combinedWordList, <<>>)
    /\ isAutofilling = FALSE
    /\ currentGrid = createEmptyGrid(0, 0)
    /\ wordsToFill = <<>>
    /\ wordOptions = EmptyMap
    /\ autofillVariations = <<>>
    /\ currentVariationIndex = -1
    /\ previewGrid = <<>>
    /\ isApplyingAutofill = FALSE
    /\ autofillJustCompleted = FALSE
    /\ FiltersAtRest
    /\ SuggestionsCurrent

NextSuggest ==
    \/ \E p \in Cells(rows, cols), direction \in {"across", "down"} :
          SelectionChanged(p[1], p[2], direction)
    \/ \E value \in {"rating", "alphabetical"} : SetSortBy(value)
    \/ \E numValue \in RatingBounds : SetMinRating(numValue)
    \/ \E numValue \in RatingBounds : SetMaxRating(numValue)

SpecSuggest == InitSuggest /\ [][NextSuggest]_vars

\* a comes before b in the order of the dictionary
WordBefore(a, b) ==
    \E k \in 1..Min(Len(a), Len(b)) + 1 :
       /\ \A i \in 1..(k - 1) : a[i] = b[i]
       /\ IF k > Len(a) THEN k <= Len(b)
          ELSE k <= Len(b) /\ a[k] < b[k]

\* the entry the suggestions are for, and its pattern
SelectedEntry == CurrentWord(words, selectedRow, selectedCol, selectedDirection)

\* the words of the list that fit the pattern of the entry w
FittingWords(w) ==
    {word \in DictionaryWords :
        /\ Len(word) = w.length
        /\ \A i \in 1..w.length :
              EntryLetters(grid, w)[i] # 0 => word[i] = EntryLetters(grid, w)[i]}

\* C11: with alphabetical sort and no rating bound, the suggestions for the
\* selected entry are exactly the words of the list of the entry's length
\* that have the entry's letters where it has letters, each once, in
\* strictly increasing order.
C11_SuggestionsExact ==
    (/\ sortBy = "alphabetical" /\ minRating = NullRating /\ maxRating = NullRating
     /\ SelectedEntry # <<>>)
    => /\ {allFilteredSuggestions[i].word : i \in 1..Len(allFilteredSuggestions)}
             = FittingWords(SelectedEntry[1])
       /\ \A i \in 1..(Len(allFilteredSuggestions) - 1) :
             WordBefore(allFilteredSuggestions[i].word, allFilteredSuggestions[i + 1].word)

-----------------------------------------------------------------------------
(* SpecDecode: importFromPuz applied to files that are cut short or have   *)
(* bytes of the header changed                                             *)

\* largest number of columns of the one-row puzzles the files are made from
MaxDecodeCols == 2

\* a puzzle of one row whose cells hold A, with a clue for every entry
SamplePuzzle(c, title, notesStr) ==
    LET g == [row \in 0..0 |-> [col \in 0..(c - 1) |-> LetterCell(65)]]
        ws == numberWords(detectWords(g))
    IN [grid |-> g, rows |-> 1, cols |-> c, clues |-> CluesFor(ws, 1..Len(ws)),
        puzzleTitle |-> title, author |-> <<66>>, copyright |-> <<>>, notes |-> notesStr]

SampleFiles ==
    {exportToPuz(SamplePuzzle(c, <<84>>, notesStr)) :
        c \in 1..MaxDecodeCols, notesStr \in {<<>>, <<78>>}}

\* the byte at offset o of a file replaced by b
WithByte(f, o, b) == [f EXCEPT ![o + 1] = b]

\* the clue strings stored in a file: 'a', 'b', ... or the empty string
StoredClues(n) ==
    {[k \in 1..n |-> IF k \in S THEN ClueOfEntry(k) ELSE <<>>] : S \in SUBSET (1..n)}

\* files in the layout of the format: the header and the boards of a sample
\* puzzle, then the title, the author, the copyright, the N clue strings
\* and the notes, each followed by one null byte
LayoutFiles ==
    UNION {LET sample == SamplePuzzle(c, <<84>>, <<>>)
               numClues == Len(numberWords(detectWords(sample.grid)))
           IN {SubSeq(exportToPuz(sample), 1, 52 + 2 * c)
                 \o WriteClues(<<<<84>>, <<66>>, <<>>>> \o stored \o <<notesStr>>) :
                 stored \in StoredClues(numClues), notesStr \in {<<>>, <<78>>}} :
           c \in 1..MaxDecodeCols}

\* the files given to the decoder: whole, cut at every length, with one
\* byte of the magic string changed, with width or height zero, and the
\* files in the layout of the format
DecodedFiles ==
    LayoutFiles \cup
    UNION {{SubSeq(f, 1, n) : n \in 0..Len(f)}
             \cup {WithByte(f, o, 88) : o \in 2..13}
             \cup {WithByte(f, 44, 0), WithByte(f, 45, 0),
                   WithByte(WithByte(f, 44, 0), 45, 0)} : f \in SampleFiles}

InitDecode ==
    /\ phase = "exported"
    /\ GridAtRest
    /\ EditorAtRest
    /\ PuzzleAtRest
    /\ file \in DecodedFiles
    /\ imported = NotImported
    /\ cksum = 0
    /\ FillAtRest

NextDecode == Import

SpecDecode == InitDecode /\ [][NextDecode]_vars

\* the bytes at 0x02 and after begin with ACROSS&DOWN
BeginsWithMagic(f) == Len(f) >= 13 /\ SubSeq(f, 3, 13) = SubSeq(Magic, 1, 11)

\* C17: the decoder fails with the invalid-magic error exactly for the
\* files whose bytes at 0x02..0x0D do not begin with ACROSS&DOWN.
C17_InvalidMagic ==
    phase = "imported" =>
      (imported.error = "InvalidMagic" <=> ~BeginsWithMagic(file))

\* C18: a file with the magic string whose width byte or height byte is
\* zero is refused with an invalid-geometry error.
C18_InvalidGeometry ==
    (/\ phase = "imported" /\ BeginsWithMagic(file) /\ Len(file) >= 52
     /\ (ByteAt(file, 44) = 0 \/ ByteAt(file, 45) = 0))
    => imported.error = "InvalidGeometry"

\* the n strings from offset on each end with a null byte inside the file
RECURSIVE AllTerminated(_, _, _)
AllTerminated(view, offset, n) ==
    IF n = 0 THEN TRUE
    ELSE LET first == readNullTerminatedString(view, offset)
         IN /\ first.nextOffset <= Len(view)
            /\ first.nextOffset > offset
            /\ ByteAt(view, first.nextOffset - 1) = 0
            /\ AllTerminated(view, first.nextOffset, n - 1)

\* C19: a file with the header and both boards in which the title, the
\* author, the copyright, one of the N clues or the notes runs to the end of
\* the file without its null byte is refused with a truncated error.
C19_Truncated ==
    (/\ phase = "imported" /\ BeginsWithMagic(file) /\ Len(file) >= 52
     /\ ByteAt(file, 44) > 0 /\ ByteAt(file, 45) > 0
     /\ Len(file) >= 52 + 2 * ByteAt(file, 44) * ByteAt(file, 45)
     /\ ~AllTerminated(file, 52 + 2 * ByteAt(file, 44) * ByteAt(file, 45),
                       ByteAt(file, 46) + 256 * ByteAt(file, 47) + 4))
    => imported.error = "Truncated"

RECURSIVE SizeOfStrings(_)
SizeOfStrings(strs) ==
    IF strs = <<>> THEN 0 ELSE Len(Head(strs)) + 1 + SizeOfStrings(Tail(strs))

\* C20: an exported file is the header of 52 bytes, the two boards of
\* rows * cols bytes, and the title, the author, the copyright, the N clues
\* of the header and the notes, each followed by one null byte, and nothing
\* else; the notes begin right after the null byte of the last clue.
C20_ExportLayout ==
    phase = "exported" =>
      LET size == rows * cols
          numClues == ByteAt(file, 46) + 256 * ByteAt(file, 47)
          read == StringsAt(file, 52 + 2 * size, numClues + 4)
      IN /\ ByteAt(file, 44) = cols /\ ByteAt(file, 45) = rows
         /\ read.strs[1] = (IF puzzleTitle = <<>> THEN UntitledPuzzle ELSE puzzleTitle)
         /\ read.strs[2] = author
         /\ read.strs[3] = copyright
         /\ read.strs[numClues + 4] = notes
         /\ Len(file) = 52 + 2 * size + SizeOfStrings(read.strs)

\* the entries in clue order: number ascending, across before down
EntriesInClueOrder(g) == SortByNumber(numberWords(detectWords(g)), <<>>)

\* the file holds the magic string, a board of at least one cell, both
\* boards and its N + 4 strings, each with its null byte
WellFormed(f) ==
    /\ BeginsWithMagic(f) /\ Len(f) >= 52
    /\ ByteAt(f, 44) > 0 /\ ByteAt(f, 45) > 0
    /\ Len(f) >= 52 + 2 * ByteAt(f, 44) * ByteAt(f, 45)
    /\ AllTerminated(f, 52 + 2 * ByteAt(f, 44) * ByteAt(f, 45),
                     ByteAt(f, 46) + 256 * ByteAt(f, 47) + 4)

\* C21: the decoder gives the k-th of the N clue strings stored in the file,
\* empty ones included, to the k-th entry of the decoded grid in the order
\* number ascending, across before down, and the string after the N-th
\* clue is the notes.
C21_CluesInEntryOrder ==
    (phase = "imported" /\ WellFormed(file)) =>
      LET size == ByteAt(file, 44) * ByteAt(file, 45)
          numClues == ByteAt(file, 46) + 256 * ByteAt(file, 47)
          read == StringsAt(file, 52 + 2 * size, numClues + 4)
      IN /\ imported.error = "none"
         /\ LET entries == EntriesInClueOrder(imported.grid)
            IN \A k \in 1..Min(numClues, Len(entries)) :
                 ClueText(imported.clues, entries[k].id) = read.strs[3 + k]
         /\ imported.notes = read.strs[numClues + 4]

-----------------------------------------------------------------------------
(* store.ts: the grid follows the stores rows and cols; the settings panel *)
(* sets them                                                               *)

\* mutant of ResizedGrid: nothing is copied
ResizedGrid_empty(g, newRows, newCols) == createEmptyGrid(newRows, newCols)

\* the grid the subscriber of rows or cols returns: an empty grid of the new
\* size with the cells of the old grid copied as far as both reach
ResizedGrid(g, newRows, newCols) ==
    [r \in 0..(newRows - 1) |-> [c \in 0..(newCols - 1) |->
        IF r < Min(GridRows(g), newRows) /\ c < Min(GridCols(g), newCols)
        THEN g[r][c] ELSE EmptyCell]]

\* the reactive block of the fill panel on a change of the grid store
ReactiveBlock ==
    IF /\ grid' # grid
       /\ ~isAutofilling /\ ~isApplyingAutofill /\ ~autofillJustCompleted
       /\ previewGrid # <<>>
    THEN /\ previewGrid' = <<>>
         /\ autofillVariations' = <<>>
         /\ currentVariationIndex' = -1
         /\ autofillJustCompleted' = FALSE
    ELSE UNCHANGED <<previewGrid, autofillVariations, currentVariationIndex,
                     autofillJustCompleted>>

\* rows.set(value): the subscribers run when the value is a new one
SetRows(value) ==
    /\ value # rows
    /\ rows' = value
    /\ grid' = ResizedGrid(grid, value, cols)
    /\ WordsFollow
    /\ ReactiveBlock
    /\ UNCHANGED <<phase, cols, editVars, codecVars, filterVars, combinedWordList,
                   uniqueWordsCache, isAutofilling, runVars, isApplyingAutofill>>
    /\ RefreshSuggestions

\* cols.set(value)
SetCols(value) ==
    /\ value # cols
    /\ cols' = value
    /\ grid' = ResizedGrid(grid, rows, value)
    /\ WordsFollow
    /\ ReactiveBlock
    /\ UNCHANGED <<phase, rows, editVars, codecVars, filterVars, combinedWordList,
                   uniqueWordsCache, isAutofilling, runVars, isApplyingAutofill>>
    /\ RefreshSuggestions

\* the largest number of rows and of columns the settings panel accepts
MaxSetting == 50

\* largest number of rows and of columns set in the model
MaxSide == 2

handleRowsChange(value) == value > 0 /\ value <= MaxSetting /\ SetRows(value)

handleColsChange(value) == value > 0 /\ value <= MaxSetting /\ SetCols(value)

incrementRows == rows < MaxSetting /\ rows < MaxSide /\ SetRows(rows + 1)

decrementRows == rows > 1 /\ SetRows(rows - 1)

incrementCols == cols < MaxSetting /\ cols < MaxSide /\ SetCols(cols + 1)

decrementCols == cols > 1 /\ SetCols(cols - 1)

-----------------------------------------------------------------------------
(* SpecResize: a grid of one cell is edited and resized                    *)

\* the cells an edit writes into the resized grid
ResizeCells == {BlackCell, EmptyCell, LetterCell(65)}

InitResize ==
    /\ phase = "idle"
    /\ rows = 1
    /\ cols = 1
    /\ grid = createEmptyGrid(rows, cols)
    /\ detected = detectWords(grid)
    /\ words = numberWords(detected)
    /\ EditorAtRest
    /\ CodecAtRest
    /\ FillAtRest

NextResize ==
    \/ \E value \in 1..MaxSide : handleRowsChange(value)
    \/ \E value \in 1..MaxSide : handleColsChange(value)
    \/ incrementRows
    \/ decrementRows
    \/ incrementCols
    \/ decrementCols
    \/ \E p \in Cells(rows, cols), cell \in ResizeCells : GridEdited(p[1], p[2], cell)

SpecResize == InitResize /\ [][NextResize]_vars

\* a change of the row count or of the column count
Resizes ==
    \/ \E value \in 1..MaxSide : handleRowsChange(value) \/ handleColsChange(value)
    \/ incrementRows \/ decrementRows \/ incrementCols \/ decrementCols

\* C22: a change of the row count or of the column count gives a grid of
\* the new size; every cell inside both the old and the new size keeps its
\* type and letter, every other cell is Empty.
C22_ResizeKeepsIntersection ==
    [][Resizes =>
         /\ DOMAIN grid' = 0..(rows' - 1)
         /\ \A r \in 0..(rows' - 1) :
              /\ DOMAIN grid'[r] = 0..(cols' - 1)
              /\ \A c \in 0..(cols' - 1) :
                   grid'[r][c] = IF r < rows /\ c < cols THEN grid[r][c] ELSE EmptyCell]_vars

\* the grid of one cell has grown to two rows and two columns: the cells
\* of the first row were there before the second row, which is Empty
C22_Witness ==
    /\ rows = 2 /\ cols = 2
    /\ grid[0][0] = LetterCell(65)
    /\ grid[0][1] = BlackCell
    /\ grid[1][0] = EmptyCell
    /\ grid[1][1] = EmptyCell

-----------------------------------------------------------------------------
(* SpecFresh: blocks are toggled on a fresh grid of five rows and columns  *)

\* the number of rows and of columns of the fresh grid
FreshSide == 5

\* largest number of Black cells on the fresh grid
MaxBlocks == 1

\* the symmetry modes of the fresh grid
FreshSymmetries == {"none", "rotational"}

BlackCount(g) ==
    Cardinality({p \in Cells(GridRows(g), GridCols(g)) : g[p[1]][p[2]].type = "black"})

InitFresh ==
    /\ phase = "edit"
    /\ rows = FreshSide
    /\ cols = FreshSide
    /\ grid = createEmptyGrid(rows, cols)
    /\ detected = detectWords(grid)
    /\ words = numberWords(detected)
    /\ symmetry \in FreshSymmetries
    /\ selectedRow = 0
    /\ selectedCol = 0
    /\ selectedDirection = "across"
    /\ CodecAtRest
    /\ FillAtRest

NextFresh ==
    \/ \E r \in 0..(rows - 1), c \in 0..(cols - 1) : handleCellClick(r, c)
    \/ /\ BlackCount(grid) < MaxBlocks \/ grid[selectedRow][selectedCol].type = "black"
       /\ KeyPeriod

SpecFresh == InitFresh /\ [][NextFresh]_vars

\* the fresh 5x5 grid in which only cell (2,2) is Black, symmetry none
CentreBlack ==
    /\ rows = 5 /\ cols = 5
    /\ symmetry = "none"
    /\ grid = SetCell(createEmptyGrid(5, 5), 2, 2, BlackCell)

\* the number of entries of a direction
EntryCount(ws, dir) == Cardinality({i \in 1..Len(ws) : ws[i].direction = dir})

\* the entries that start at a cell
EntriesAt(ws, r, c) == {i \in 1..Len(ws) : ws[i].startRow = r /\ ws[i].startCol = c}

\* C23: on the fresh 5x5 grid whose only Black cell is (2,2), with symmetry
\* none, the word index has 8 across entries and 8 down entries, and the
\* entry that starts at (0,0) has number 1.
C23_EightAcrossEightDown ==
    CentreBlack =>
      /\ EntryCount(words, "across") = 8
      /\ EntryCount(words, "down") = 8
      /\ EntriesAt(words, 0, 0) # {}
      /\ \A i \in EntriesAt(words, 0, 0) : words[i].number = 1

\* C23 as the code has it: the rows 0, 1, 3, 4 hold one across entry each
\* and row 2 holds two, likewise the columns: 6 across entries and 6 down
\* entries, and the entries that start at (0,0) have number 1.
C23_SixAcrossSixDown ==
    CentreBlack =>
      /\ EntryCount(words, "across") = 6
      /\ EntryCount(words, "down") = 6
      /\ EntriesAt(words, 0, 0) # {}
      /\ \A i \in EntriesAt(words, 0, 0) : words[i].number = 1

\* the block at (2,2) has been set by the key '.', which moved the
\* selection on to (2,3)
C23_Witness ==
    /\ CentreBlack
    /\ selectedRow = 2 /\ selectedCol = 3
    /\ Len(words) > 0

-----------------------------------------------------------------------------
(* Claims about the order of the search                                    *)

\* the number of candidates of an entry of the run
OptionCount(word) == Len(wordOptions[WordKey(word)])

\* entry a is to be chosen before entry b: fewer candidates, then the lower
\* number, then across before down
ChosenBefore(a, b) ==
    \/ OptionCount(a) < OptionCount(b)
    \/ /\ OptionCount(a) = OptionCount(b)
       /\ \/ a.number < b.number
          \/ a.number = b.number /\ a.direction = "across" /\ b.direction = "down"

\* the keys of the entries of the run
RunKeys == {WordKey(wordsToFill[i]) : i \in 1..Len(wordsToFill)}

\* C24: whichever entries of the run have a word already, the entry the
\* search branches on is the entry without word that has the fewest
\* candidates, among those the one with the lowest number, and of an across
\* and a down entry of one number the across entry.
C24_FewestCandidatesFirst ==
    phase = "generating" =>
      \A S \in (SUBSET RunKeys) \ {RunKeys} :
         LET best == MostConstrained(wordsToFill, wordOptions, [key \in S |-> <<65>>], <<>>)
         IN /\ best # <<>>
            /\ WordKey(best[1]) \notin S
            /\ \A i \in 1..Len(wordsToFill) :
                 (WordKey(wordsToFill[i]) \notin S /\ wordsToFill[i] # best[1])
                    => ChosenBefore(best[1], wordsToFill[i])

\* a search is about to start in which an entry has fewer candidates than
\* an entry listed before it, and two entries have equally many
C24_Witness ==
    /\ phase = "generating"
    /\ \E i, j \in 1..Len(wordsToFill) :
         i < j /\ OptionCount(wordsToFill[j]) < OptionCount(wordsToFill[i])
    /\ \E i, j \in 1..Len(wordsToFill) :
         i # j /\ OptionCount(wordsToFill[i]) = OptionCount(wordsToFill[j])

\* candidate a may stand before candidate b in the order RatingDesc: rated
\* before unrated, the higher rating first, equal ratings alphabetically
RatingDesc(a, b) ==
    \/ a.rating # NullRating /\ b.rating = NullRating
    \/ a.rating # NullRating /\ b.rating # NullRating /\ a.rating > b.rating
    \/ a.rating = b.rating /\ WordBefore(a.word, b.word)

\* C25: the candidates of every entry of a run are in the order RatingDesc:
\* rated words before unrated ones, the higher rating first, and words of
\* equal rating, or without rating, in alphabetical order.
C25_CandidatesRatingDesc ==
    phase = "generating" =>
      \A key \in DOMAIN wordOptions :
         \A i, j \in 1..Len(wordOptions[key]) :
            i < j => RatingDesc(wordOptions[key][i], wordOptions[key][j])

-----------------------------------------------------------------------------
(* Claims about the preview under edits of the grid                        *)

\* a manual edit of one cell of the grid
ManualEdit == \E p \in Cells(rows, cols), cell \in EditedCells : GridEdited(p[1], p[2], cell)

\* C26: a manual edit of the grid while a preview is shown, no search
\* running and no variation being applied, clears the preview and the list
\* of variations, whichever run produced the preview and however long ago.
C26_EditClearsPreview ==
    [][(ManualEdit /\ previewGrid # <<>> /\ ~isAutofilling /\ ~isApplyingAutofill)
       => /\ previewGrid' = <<>>
          /\ autofillVariations' = <<>>]_vars

\* C27: applying a variation changes no cell that is a Letter or Black cell
\* of the grid at that moment: the applied variation differs from the grid
\* only in cells that were Empty.
C27_ApplyFillsCurrentGrid ==
    [][applyAutofill =>
         /\ DOMAIN grid' = DOMAIN grid
         /\ \A r \in DOMAIN grid :
              /\ DOMAIN grid'[r] = DOMAIN grid[r]
              /\ \A c \in DOMAIN grid[r] :
                   grid[r][c].type # "empty" => grid'[r][c] = grid[r][c]]_vars

-----------------------------------------------------------------------------
(* SpecDims: the settings panel and the fill panel work on a grid of one   *)
(* row: the number of columns changes, cells are edited, the grid and the  *)
(* fill are cleared, variations are generated, applied and discarded       *)

\* the grid handleClearFill returns: the letters are removed
ClearedFill(g) ==
    [r \in DOMAIN g |-> [c \in DOMAIN g[r] |->
        IF g[r][c].type = "letter" THEN EmptyCell ELSE g[r][c]]]

\* the grid store is set by a button of the settings panel, and the blocks
\* of the fill panel that read the grid run
GridSet(newGrid) ==
    /\ newGrid # grid
    /\ grid' = newGrid
    /\ WordsFollow
    /\ ReactiveBlock
    /\ UNCHANGED <<phase, rows, cols, editVars, codecVars, filterVars, combinedWordList,
                   uniqueWordsCache, isAutofilling, runVars, isApplyingAutofill>>
    /\ RefreshSuggestions

\* the word list of SpecDims: a word for every entry of one or two cells
DimsWordList == <<Item(<<65>>, NullRating), Item(<<65, 65>>, NullRating)>>

\* the cells an edit writes in SpecDims
DimsCells == {LetterCell(65)}

InitDims ==
    /\ phase = "idle"
    /\ rows = 1
    /\ cols = 1
    /\ grid = createEmptyGrid(rows, cols)
    /\ detected = detectWords(grid)
    /\ words = numberWords(detected)
    /\ EditorAtRest
    /\ CodecAtRest
    /\ combinedWordList = DimsWordList
    /\ uniqueWordsCache = UniqueWords(combinedWordList, <<>>)
    /\ isAutofilling = FALSE
    /\ currentGrid = createEmptyGrid(0, 0)
    /\ wordsToFill = <<>>
    /\ wordOptions = EmptyMap
    /\ autofillVariations = <<>>
    /\ currentVariationIndex = -1
    /\ previewGrid = <<>>
    /\ isApplyingAutofill = FALSE
    /\ autofillJustCompleted = FALSE
    /\ FiltersAtRest
    /\ SuggestionsCurrent

NextDims ==
    \/ \E value \in 1..MaxSide : handleColsChange(value)
    \/ incrementCols
    \/ decrementCols
    \/ \E p \in Cells(GridRows(grid), GridCols(grid)), cell \in DimsCells :
          GridEdited(p[1], p[2], cell)
    \/ GridSet(createEmptyGrid(rows, cols))
    \/ GridSet(ClearedFill(grid))
    \/ GenerateStart
    \/ GenerateAnalyze
    \/ GenerateOptions
    \/ GenerateSearch
    \/ applyAutofill
    \/ ApplyTimer
    \/ clearPreview

SpecDims == InitDims /\ [][NextDims]_vars

\* C28: the grid is rectangular and has exactly rows rows of exactly cols
\* cells each, after whatever changes of the dimensions, edits, clearings
\* and autofill operations.
C28_GridHasTheDimensions ==
    /\ DOMAIN grid = 0..(rows - 1)
    /\ \A r \in DOMAIN grid : DOMAIN grid[r] = 0..(cols - 1)

-----------------------------------------------------------------------------
(* Claims about the completeness and the end of a run                      *)

\* the entry of the run with that key
RunEntry(key) == wordsToFill[CHOOSE i \in 1..Len(wordsToFill) : WordKey(wordsToFill[i]) = key]

\* the candidate words of the entry with that key
CandidateWords(key) == {wordOptions[key][k].word : k \in 1..Len(wordOptions[key])}

\* every way to give each entry of the run one of its candidates
Assignments ==
    {a \in [RunKeys -> UNION {CandidateWords(key) : key \in RunKeys}] :
        \A key \in RunKeys : a[key] \in CandidateWords(key)}

\* the letters assignment a puts on cell p
LettersAt(a, p) ==
    {a[x[1]][x[2]] :
        x \in {y \in RunKeys \X (1..(GridRows(currentGrid) + GridCols(currentGrid))) :
                  /\ y[2] <= RunEntry(y[1]).length
                  /\ RunCell(y[1][1], y[1][2], y[1][3], y[2] - 1) = p}}

\* a agrees with the letters of the grid of the run and at every crossing
Agrees(a) ==
    \A p \in Cells(GridRows(currentGrid), GridCols(currentGrid)) :
       /\ Cardinality(LettersAt(a, p)) <= 1
       /\ currentGrid[p[1]][p[2]].type = "letter" =>
             LettersAt(a, p) \subseteq {currentGrid[p[1]][p[2]].letter}

\* the grid of the run with the words of a written into its Empty cells
FilledBy(a) ==
    [r \in DOMAIN currentGrid |-> [c \in DOMAIN currentGrid[r] |->
        IF currentGrid[r][c].type = "empty" /\ LettersAt(a, <<r, c>>) # {}
        THEN LetterCell(CHOOSE ch \in LettersAt(a, <<r, c>>) : TRUE)
        ELSE currentGrid[r][c]]]

\* C29: a search that returns fewer than maxVariations variations returns
\* every fill: each way to give every entry of the run one of its candidates
\* that agrees with the letters of the grid and at every crossing is among
\* the variations.
C29_SearchExhaustive ==
    [][GenerateSearch =>
         (Len(autofillVariations') < maxVariations =>
            \A a \in Assignments :
               Agrees(a) => \E k \in 1..Len(autofillVariations') :
                               autofillVariations'[k] = FilledBy(a))]_vars

\* a run on crossing entries has ended with several variations, and some
\* choice of candidates did not agree at a crossing
C29_Witness ==
    /\ phase = "idle"
    /\ ~isAutofilling
    /\ Len(autofillVariations) >= 2
    /\ Len(autofillVariations) < maxVariations
    /\ Len(wordsToFill) >= 3
    /\ DOMAIN wordOptions = RunKeys
    /\ \E a \in Assignments : ~Agrees(a)
    /\ \A k \in 1..Len(autofillVariations) :
          \E a \in Assignments : Agrees(a) /\ autofillVariations[k] = FilledBy(a)

-----------------------------------------------------------------------------
(* SpecLive: runs are started on grids and lists that make a run end in    *)
(* each of its ways; the timers of a run that waits do fire                *)

\* the word lists of SpecLive
LiveWordLists == {CapWordList, WordList2}

InitLive ==
    /\ phase = "idle"
    /\ rows \in 1..MaxFillRows
    /\ cols = 2
    /\ grid \in [0..(rows - 1) -> [0..(cols - 1) -> {EmptyCell, LetterCell(65)}]]
    /\ detected = detectWords(grid)
    /\ words = numberWords(detected)
    /\ EditorAtRest
    /\ CodecAtRest
    /\ combinedWordList \in LiveWordLists
    /\ uniqueWordsCache = UniqueWords(combinedWordList, <<>>)
    /\ isAutofilling = FALSE
    /\ currentGrid = createEmptyGrid(0, 0)
    /\ wordsToFill = <<>>
    /\ wordOptions = EmptyMap
    /\ autofillVariations = <<>>
    /\ currentVariationIndex = -1
    /\ previewGrid = <<>>
    /\ isApplyingAutofill = FALSE
    /\ autofillJustCompleted = FALSE
    /\ FiltersAtRest
    /\ SuggestionsCurrent

NextLive ==
    \/ GenerateStart
    \/ GenerateAnalyze
    \/ GenerateOptions
    \/ GenerateSearch
    \/ clearPreview

\* the run waits at a timer (StatsPanel.svelte 699, 719, 756) and the timer
\* fires: the run leaves the phase it waited in
TimerFires ==
    /\ phase \in {"analyzing", "finding", "generating"}
    /\ phase' \in {"idle", "finding", "generating"} \ {phase}

\* a timer that was set does fire. The steps of NextLive that leave a phase
\* of the run are GenerateAnalyze, GenerateOptions and GenerateSearch, each
\* enabled all the time the run waits in its phase: the condition is weak
\* fairness of these three, stated on phase alone
SpecLive ==
    /\ InitLive
    /\ [][NextLive]_vars
    /\ WF_phase(TimerFires)

\* C30: every run that was started ends and releases the busy flag, whether
\* there is no entry to fill, an entry has no candidate, the search is
\* exhausted or the list of variations is full; and while the flag is set no
\* run is started.
C30_RunsEnd ==
    /\ isAutofilling ~> (~isAutofilling /\ phase = "idle")
    /\ [][GenerateStart => ~isAutofilling]_vars
    /\ [][(isAutofilling /\ phase # "idle") => phase' # "analyzing"]_vars

\* the ways a run has ended
EndedWithoutEntry == wordsToFill = <<>> /\ currentGrid = grid
EndedWithoutCandidate == \E key \in DOMAIN wordOptions : wordOptions[key] = <<>>
EndedExhausted ==
    /\ wordsToFill # <<>> /\ DOMAIN wordOptions = RunKeys
    /\ ~EndedWithoutCandidate
    /\ Len(autofillVariations) < maxVariations
EndedFull == Len(autofillVariations) = maxVariations

\* a run has ended with the list of variations full and the flag released
C30_Witness ==
    /\ phase = "idle"
    /\ ~isAutofilling
    /\ EndedFull

====
